---- MODULE Spec2Model ----
(***************************************************************************)
(* A model of the AI session stream manager of oramacore-client-rust       *)
(* (src/src/stream_manager.rs): the shared Message and Interaction         *)
(* sequences, the stored last request parameters, the public operations    *)
(* answer / answer_stream / regenerate_last / clear_session, the SSE       *)
(* event mapping of create_resilient_stream and the detached update tasks  *)
(* it spawns.                                                              *)
(*                                                                         *)
(* Granularity: every block of code that runs under one lock guard (or     *)
(* between two .await points) is one atomic step of the calling task.      *)
(* tokio::spawn'ed closures are separate tasks that the runtime may run in *)
(* any order.                                                              *)
(***************************************************************************)
EXTENDS Integers, Sequences, FiniteSets, TLC

\* ------------------------------------------------------------------ bounds
\* Number of turns (answer / answer_stream / regenerate_last calls) started.
MaxTurns == 2
\* Number of transport events one stream delivers.
MaxEvents == 2
\* Number of Throttle::execute calls made.
MaxCalls == 4
\* Last reading of the clock in the throttle's behaviours.
MaxClock == 5
\* Number of texts handed to safe_json_parse.
MaxParses == 3

\* The concurrent call sites that share one session object.
Callers == {"c1", "c2"}

\* ------------------------------------------------------------------- types
\* Option<T>: None is the empty sequence, Some(x) the one-element sequence.
None == <<>>
Some(x) == <<x>>

\* types.rs: pub const DEFAULT_SERVER_USER_ID
DEFAULT_SERVER_USER_ID == "server-user-default"

\* types.rs: struct Message { role, content }
Message(role, content) == [role |-> role, content |-> content]

\* Mutant: an Interaction that is created already finished.
NewInteractionIdle(id, query) ==
    [ id |-> id,
      query |-> query,
      response |-> "",
      sources |-> None,
      loading |-> FALSE,
      error |-> FALSE,
      error_message |-> None,
      aborted |-> FALSE,
      related |-> None,
      current_step |-> Some("completed"),
      current_step_verbose |-> None ]

\* Interaction::new(id, query)
NewInteraction(id, query) ==
    [ id |-> id,
      query |-> query,
      response |-> "",
      sources |-> None,
      loading |-> TRUE,
      error |-> FALSE,
      error_message |-> None,
      aborted |-> FALSE,
      related |-> None,
      current_step |-> Some("starting"),
      current_step_verbose |-> None ]

\* AnswerConfig::new(query) followed by the with_* builders the caller used.
AnswerConfig(query, interaction_id, visitor_id, session_id, llm) ==
    [ query |-> query,
      interaction_id |-> interaction_id,
      visitor_id |-> visitor_id,
      session_id |-> session_id,
      llm_config |-> llm ]

\* The requests a caller submits: every optional field left out, or every
\* optional field supplied.
Requests ==
    { AnswerConfig("q1", None, None, None, None),
      AnswerConfig("q2", Some("i-given"), Some("v-given"), Some("s-given"), Some("llm-req")) }

\* CreateAiSessionConfig: the constructors new / with_config.
Constructors ==
    { [llm_config |-> None, initial_messages |-> <<>>],
      [llm_config |-> Some("llm-default"),
       initial_messages |-> << Message("System", "sys") >>] }

\* What the remote service answers to the non-streaming request:
\* an HTTP status and, on success, the JSON body's "answer" (None: no such key).
HttpResponses ==
    { [status |-> 200, answer |-> Some("ok")],
      [status |-> 401, answer |-> None] }

\* No HTTP response received (yet) by a call.
NoResponse == [status |-> 0, answer |-> None]

\* Result<T>
Ok(v) == [ok |-> TRUE, val |-> v, err |-> ""]
Err(e) == [ok |-> FALSE, val |-> "", err |-> e]
NoResult == [ok |-> FALSE, val |-> "", err |-> "pending"]

\* ------------------------------------------------------------------- state
VARIABLES
    session_id,               \* OramaCoreStream.session_id
    llm_config,               \* OramaCoreStream.llm_config
    messages,                 \* OramaCoreStream.messages  (Arc<RwLock<Vec<Message>>>)
    state,                    \* OramaCoreStream.state     (Arc<RwLock<Vec<Interaction>>>)
    last_interaction_params,  \* OramaCoreStream.last_interaction_params
    call,                     \* per call site: the running operation, its position and locals
    streams,                  \* per call site: the stream answer_stream returned to it
    tasks,                    \* the detached (tokio::spawn) update tasks not yet finished
    uuids,                    \* number of identifiers generate_uuid has produced
    turns,                    \* number of turns started (bounded by MaxTurns)
    clock,                    \* the monotonic clock (std::time::Instant::now)
    snapshot,                 \* what get_messages / get_state last returned to the caller
    last_called,              \* Throttle.last_called (Mutex<Option<Instant>>)
    executions,               \* the Throttle::execute calls made: time, whether f ran, result
    parsed,                   \* the safe_json_parse calls made: input text and result
    lock_pc                   \* per operation: the next lock instruction it runs

vars == << session_id, llm_config, messages, state, last_interaction_params,
           call, streams, tasks, uuids, turns, clock,
           snapshot, last_called, executions, parsed, lock_pc >>

\* What belongs to the code around the session: untouched by its operations.
caller_vars == << snapshot, last_called, executions, parsed, lock_pc >>

Last(s) == s[Len(s)]
Front(s) == SubSeq(s, 1, Len(s) - 1)

\* utils.rs: generate_uuid(), the n-th identifier produced
generate_uuid(n) == "uuid-" \o ToString(n)

IdleCall ==
    [ op |-> "none", pc |-> "idle", stream |-> FALSE,
      data |-> AnswerConfig("", None, None, None, None),
      state_len |-> 0, messages_len |-> 0, last_params |-> None,
      http |-> NoResponse,
      answer |-> "", complete_response |-> "", result |-> NoResult ]

\* events: what the transport has delivered; items: what the stream yielded.
NoStream ==
    [status |-> "none", start_time |-> 0, polled |-> 0, events |-> <<>>, items |-> <<>>]

\* The caller holds no snapshot.
NoSnapshot == [of |-> "none", kind |-> "copy", val |-> <<>>]

\* No operation is running, no stream is open and no detached task is pending.
AtRest ==
    /\ \A c \in Callers : call[c].pc \in {"idle", "done"}
    /\ \A c \in Callers : streams[c].status # "open"
    /\ tasks = {}

\* The operations and detached tasks that take the session's locks, each
\* running once and concurrently with the others. regenerate_last is the
\* streaming one (it calls answer_stream); state_task is the update a step,
\* "[DONE]" or error event spawns.
LockOps ==
    { "answer", "regenerate_last", "clear_session", "get_messages", "get_state",
      "content_task", "state_task" }

InitWith(K) ==
    /\ \E k \in K :
          /\ llm_config = k.llm_config
          /\ messages = k.initial_messages
    /\ session_id = generate_uuid(0)
    /\ state = <<>>
    /\ last_interaction_params = None
    /\ call = [c \in Callers |-> IdleCall]
    /\ streams = [c \in Callers |-> NoStream]
    /\ tasks = {}
    /\ uuids = 0
    /\ turns = 0
    /\ clock = 0
    /\ snapshot = NoSnapshot
    /\ last_called = None
    /\ executions = <<>>
    /\ parsed = <<>>
    /\ lock_pc = [p \in LockOps |-> 1]

\* --------------------------------------------------------------- enrichment
\* Mutant: the visitor id is always the default constant.
enrich_config_DefaultVisitor(config, n) ==
    [ config EXCEPT
        !.visitor_id = Some(DEFAULT_SERVER_USER_ID),
        !.interaction_id = IF @ = None THEN Some(generate_uuid(n)) ELSE @,
        !.session_id = IF @ = None THEN Some(session_id) ELSE @,
        !.llm_config = IF @ = None THEN llm_config ELSE @ ]

\* enrich_config: fill the omitted fields; n is the identifier generate_uuid
\* hands out if one is needed.
enrich_config(config, n) ==
    [ config EXCEPT
        !.visitor_id = IF @ = None THEN Some(DEFAULT_SERVER_USER_ID) ELSE @,
        !.interaction_id = IF @ = None THEN Some(generate_uuid(n)) ELSE @,
        !.session_id = IF @ = None THEN Some(session_id) ELSE @,
        !.llm_config = IF @ = None THEN llm_config ELSE @ ]

\* ------------------------------------------------------ starting operations
Goto(c, pc) == [call EXCEPT ![c].pc = pc]

\* A call site invokes answer(data).
StartAnswer(c, R) ==
    /\ call[c].pc \in {"idle", "done"}
    /\ turns < MaxTurns
    /\ \E data \in R :
          call' = [call EXCEPT ![c] = [IdleCall EXCEPT !.op = "answer",
                                                      !.pc = "store_params",
                                                      !.data = data]]
    /\ turns' = turns + 1
    /\ UNCHANGED << caller_vars, session_id, llm_config, messages, state,
                    last_interaction_params, streams, tasks, uuids, clock >>

\* ------------------------------------------------- answer / answer_stream
\* Mutant: the caller's original request is stored, not the enriched one.
StoreParamsOriginal(c) ==
    /\ call[c].pc = "store_params"
    /\ LET enriched == enrich_config(call[c].data, uuids + 1) IN
          /\ last_interaction_params' = Some(call[c].data)
          /\ uuids' = IF call[c].data.interaction_id = None THEN uuids + 1 ELSE uuids
          /\ call' = [call EXCEPT ![c].data = enriched, ![c].pc = "push_messages"]
    /\ UNCHANGED << caller_vars, session_id, llm_config, messages, state, streams, tasks,
                    turns, clock >>

\* answer, answer_stream: enrich_config, then store the enriched request
\* under the last_interaction_params write lock.
StoreParams(c) ==
    /\ call[c].pc = "store_params"
    /\ LET enriched == enrich_config(call[c].data, uuids + 1) IN
          /\ last_interaction_params' = Some(enriched)
          /\ uuids' = IF call[c].data.interaction_id = None THEN uuids + 1 ELSE uuids
          /\ call' = [call EXCEPT ![c].data = enriched, ![c].pc = "push_messages"]
    /\ UNCHANGED << caller_vars, session_id, llm_config, messages, state, streams, tasks,
                    turns, clock >>

\* "Add user message": both pushes under one messages write lock.
PushTurnMessages(msgs, query) ==
    msgs \o << Message("User", query), Message("Assistant", "") >>

\* Mutant: the two pushes are two lock sections, the User message in the
\* first and the Assistant placeholder in the second.
PushMessages_TwoSections(c) ==
    /\ call[c].pc = "push_messages"
    /\ IF call[c].messages_len = 0
       THEN /\ messages' = Append(messages, Message("User", call[c].data.query))
            /\ call' = [call EXCEPT ![c].messages_len = 1]
       ELSE /\ messages' = Append(messages, Message("Assistant", ""))
            /\ call' = [call EXCEPT ![c].messages_len = 0, ![c].pc = "push_state"]
    /\ UNCHANGED << caller_vars, session_id, llm_config, state, last_interaction_params,
                    streams, tasks, uuids, turns, clock >>

PushMessages(c) ==
    /\ call[c].pc = "push_messages"
    /\ messages' = PushTurnMessages(messages, call[c].data.query)
    /\ call' = Goto(c, "push_state")
    /\ UNCHANGED << caller_vars, session_id, llm_config, state, last_interaction_params,
                    streams, tasks, uuids, turns, clock >>

\* "Create interaction": pushed under the state write lock.
PushState(c) ==
    /\ call[c].pc = "push_state"
    /\ state' = Append(state, NewInteraction(call[c].data.interaction_id[1],
                                             call[c].data.query))
    /\ call' = Goto(c, IF call[c].op = "answer_stream"
                          \/ (call[c].op = "regenerate_last" /\ call[c].stream)
                       THEN "open_stream" ELSE "request")
    /\ UNCHANGED << caller_vars, session_id, llm_config, messages, last_interaction_params,
                    streams, tasks, uuids, turns, clock >>

\* Mutant: only the 4xx and 5xx statuses are taken as failures.
requestFailsFrom400(resp) ==
    IF resp.status >= 400
    THEN CASE resp.status = 401 -> Err("auth: Unauthorized")
           [] resp.status = 400 -> Err("api 400: Bad Request")
           [] OTHER -> Err("api " \o ToString(resp.status))
    ELSE Ok(resp.answer)

\* client.rs: OramaClient::request, the result for an HTTP response.
request(resp) ==
    IF resp.status < 200 \/ resp.status > 299
    THEN CASE resp.status = 401 -> Err("auth: Unauthorized")
           [] resp.status = 400 -> Err("api 400: Bad Request")
           [] OTHER -> Err("api " \o ToString(resp.status))
    ELSE Ok(resp.answer)

\* Mutant: a failed API call marks the Interaction as errored before returning.
RequestMarksError(c, H) ==
    /\ call[c].pc = "request"
    /\ \E resp \in H :
          LET r == request(resp) IN
          IF r.ok
          THEN /\ call' = [call EXCEPT ![c].answer = IF r.val = None THEN "" ELSE r.val[1],
                                       ![c].http = resp,
                                       ![c].pc = "update_state"]
               /\ UNCHANGED state
          ELSE /\ call' = [call EXCEPT ![c].result = Err(r.err), ![c].http = resp,
                                       ![c].pc = "done"]
               /\ state' = IF state = <<>> THEN state
                           ELSE [state EXCEPT ![Len(state)].error = TRUE,
                                              ![Len(state)].error_message = Some(r.err),
                                              ![Len(state)].loading = FALSE]
    /\ UNCHANGED << caller_vars, session_id, llm_config, messages,
                    last_interaction_params, streams, tasks, uuids, turns, clock >>

\* Mutant: a failed API call takes the turn it appended back out.
Request_DropsTurnOnFailure(c, H) ==
    /\ call[c].pc = "request"
    /\ \E resp \in H :
          LET r == request(resp) IN
          IF r.ok
          THEN /\ call' = [call EXCEPT ![c].answer = IF r.val = None THEN "" ELSE r.val[1],
                                       ![c].http = resp,
                                       ![c].pc = "update_state"]
               /\ UNCHANGED << messages, state >>
          ELSE /\ call' = [call EXCEPT ![c].result = Err(r.err), ![c].http = resp,
                                       ![c].pc = "done"]
               /\ state' = IF state = <<>> THEN state ELSE Front(state)
               /\ messages' = IF Len(messages) < 2 THEN <<>>
                              ELSE SubSeq(messages, 1, Len(messages) - 2)
    /\ UNCHANGED << caller_vars, session_id, llm_config,
                    last_interaction_params, streams, tasks, uuids, turns, clock >>

\* answer: the API call; an error returns from answer at once (the `?`).
\* http keeps the response the call received.
Request(c, H) ==
    /\ call[c].pc = "request"
    /\ \E resp \in H :
          LET r == request(resp) IN
          IF r.ok
          THEN \* response["answer"].as_str().unwrap_or_default()
               call' = [call EXCEPT ![c].answer = IF r.val = None THEN "" ELSE r.val[1],
                                    ![c].http = resp,
                                    ![c].pc = "update_state"]
          ELSE call' = [call EXCEPT ![c].result = Err(r.err), ![c].http = resp,
                                    ![c].pc = "done"]
    /\ UNCHANGED << caller_vars, session_id, llm_config, messages, state,
                    last_interaction_params, streams, tasks, uuids, turns, clock >>

\* Mutant: the response is written but the loading state is not finalized.
CompleteLastInteraction_KeepsLoading(st, answer) ==
    IF st = <<>> THEN st
    ELSE [st EXCEPT ![Len(st)].response = answer]

\* answer: "Update the interaction", state.last_mut() under the state write lock.
CompleteLastInteraction(st, answer) ==
    IF st = <<>> THEN st
    ELSE [st EXCEPT ![Len(st)].response = answer,
                    ![Len(st)].loading = FALSE,
                    ![Len(st)].current_step = Some("completed")]

UpdateState(c) ==
    /\ call[c].pc = "update_state"
    /\ state' = CompleteLastInteraction(state, call[c].answer)
    /\ call' = Goto(c, "update_message")
    /\ UNCHANGED << caller_vars, session_id, llm_config, messages, last_interaction_params,
                    streams, tasks, uuids, turns, clock >>

\* answer: messages.last_mut().content = answer, then Ok(answer).
SetLastMessage(msgs, answer) ==
    IF msgs = <<>> THEN msgs ELSE [msgs EXCEPT ![Len(msgs)].content = answer]

UpdateMessage(c) ==
    /\ call[c].pc = "update_message"
    /\ messages' = SetLastMessage(messages, call[c].answer)
    /\ call' = [call EXCEPT ![c].result = Ok(call[c].answer), ![c].pc = "done"]
    /\ UNCHANGED << caller_vars, session_id, llm_config, state, last_interaction_params,
                    streams, tasks, uuids, turns, clock >>

\* ------------------------------------------------------- the SSE channel
\* StreamConfig.stream_timeout of the session (built by with_stream_config),
\* in units of the model's clock.
stream_timeout == 2

\* serde_json::from_str::<Value> on the payloads the transport delivers:
\* the top-level string fields the decoder inspects (None: no such key).
Json(content, step, verbose_step, error) ==
    [content |-> content, step |-> step, verbose_step |-> verbose_step, error |-> error]

\* serde_json::Value of a key: a JSON string or a JSON number
Str(s) == [type |-> "String", v |-> s]
Num(n) == [type |-> "Number", v |-> n]

\* Value::get(key).and_then(|v| v.as_str())
as_str(field) ==
    IF field # None /\ field[1].type = "String" THEN Some(field[1].v) ELSE None

serde_json_from_str(data) ==
    CASE data = "{\"content\":\"a\"}" -> Ok(Json(Some(Str("a")), None, None, None))
      [] data = "{\"content\":\"b\",\"step\":\"writing\"}" ->
              Ok(Json(Some(Str("b")), Some(Str("writing")), None, None))
      [] data = "{\"step\":\"searching\"}" ->
              Ok(Json(None, Some(Str("searching")), None, None))
      [] data = "{\"error\":\"boom\"}" -> Ok(Json(None, None, None, Some(Str("boom"))))
      [] data = "{\"content\":\"c\",\"error\":\"boom\"}" ->
              Ok(Json(Some(Str("c")), None, None, Some(Str("boom"))))
      [] data = "{\"content\":\"d\",\"step\":\"writing\",\"verbose_step\":\"Writing it\"}" ->
              Ok(Json(Some(Str("d")), Some(Str("writing")), Some(Str("Writing it")), None))
      [] data = "{\"step\":\"searching\",\"error\":\"boom\"}" ->
              Ok(Json(None, Some(Str("searching")), None, Some(Str("boom"))))
      [] data = "{\"content\":1,\"step\":\"searching\"}" ->
              Ok(Json(Some(Num("1")), Some(Str("searching")), None, None))
      [] data = "{\"step\":2,\"error\":\"boom\"}" ->
              Ok(Json(None, Some(Num("2")), None, Some(Str("boom"))))
      [] data = "{\"hits\":3}" -> Ok(Json(None, None, None, None))
      [] OTHER -> Err("expected value")

\* llm_json::repair_json(data, &Default::default()), on the texts that do not
\* parse directly: a trailing comma is removed (utils.rs, the test
\* test_safe_json_parse_malformed); for the empty text it answers with a
\* text that is no JSON either; for any other text it reports an error.
repair_json(data) ==
    CASE data = "{\"content\":\"a\",}" -> Ok("{\"content\":\"a\"}")
      [] data = "" -> Ok("")
      [] OTHER -> Err("no JSON value found")

\* Mutant: no repair is attempted.
safe_json_parse_DirectOnly(data) ==
    LET direct == serde_json_from_str(data) IN
    IF direct.ok THEN direct
    ELSE Err("Failed to parse even after JSON fixing: " \o direct.err)

\* utils.rs: safe_json_parse
safe_json_parse(data) ==
    LET direct == serde_json_from_str(data) IN
    IF direct.ok THEN direct
    ELSE LET fixed_json == repair_json(data) IN
         IF ~fixed_json.ok
         THEN Err("Failed to fix malformed JSON: " \o fixed_json.err)
         ELSE LET again == serde_json_from_str(fixed_json.val) IN
              IF again.ok THEN again
              ELSE Err("Failed to parse even after JSON fixing: " \o again.err)

parse_ai_response(data) == safe_json_parse(data)

\* StreamChunk and the Err item of the stream
Chunk(type, text) == [type |-> type, text |-> text]

\* The detached tasks create_resilient_stream / process_stream_data spawn.
\* A content task takes the messages lock, then the state lock: two steps.
\* owner and n name the stream and the event of it that spawned the task.
Task(kind, owner, n, text, step, verbose) ==
    [kind |-> kind, phase |-> IF kind = "content" THEN "messages" ELSE "state",
     owner |-> owner, n |-> n, text |-> text, step |-> step, verbose |-> verbose]

Decoded(item, spawn) == [item |-> item, spawn |-> spawn]

\* Mutant: a payload with only an error key is passed on as raw data.
process_stream_data_DropsError(data, owner, n) ==
    LET p == parse_ai_response(data) IN
    IF p.ok
    THEN LET content == as_str(p.val.content)
             step == as_str(p.val.step)
         IN IF content # None
            THEN Decoded(Chunk("Content", content[1]),
                         { Task("content", owner, n, content[1],
                                 step, as_str(p.val.verbose_step)) })
            ELSE IF step # None
            THEN Decoded(Chunk("StatusUpdate", step[1]),
                         { Task("step", owner, n, "", step, None) })
            ELSE Decoded(Chunk("RawData", data), {})
    ELSE Decoded(Chunk("RawData", data), {})

\* Mutant: the step key is looked at before the content key.
process_stream_data_StepFirst(data, owner, n) ==
    LET p == parse_ai_response(data) IN
    IF p.ok
    THEN LET content == as_str(p.val.content)
             step == as_str(p.val.step)
             error_msg == as_str(p.val.error)
         IN IF step # None
            THEN Decoded(Chunk("StatusUpdate", step[1]),
                         { Task("step", owner, n, "", step, None) })
            ELSE IF content # None
            THEN Decoded(Chunk("Content", content[1]),
                         { Task("content", owner, n, content[1],
                                 step, as_str(p.val.verbose_step)) })
            ELSE IF error_msg # None
            THEN Decoded(Chunk("Err", error_msg[1]),
                         { Task("error", owner, n, error_msg[1], None, None) })
            ELSE Decoded(Chunk("RawData", data), {})
    ELSE Decoded(Chunk("RawData", data), {})

\* Mutant: a payload that does not parse is reported as an error.
process_stream_data_ParseError(data, owner, n) ==
    LET p == parse_ai_response(data) IN
    IF p.ok
    THEN LET content == as_str(p.val.content)
             step == as_str(p.val.step)
             error_msg == as_str(p.val.error)
         IN IF content # None
            THEN Decoded(Chunk("Content", content[1]),
                         { Task("content", owner, n, content[1],
                                 step, as_str(p.val.verbose_step)) })
            ELSE IF step # None
            THEN Decoded(Chunk("StatusUpdate", step[1]),
                         { Task("step", owner, n, "", step, None) })
            ELSE IF error_msg # None
            THEN Decoded(Chunk("Err", error_msg[1]),
                         { Task("error", owner, n, error_msg[1], None, None) })
            ELSE Decoded(Chunk("RawData", data), {})
    ELSE Decoded(Chunk("Err", p.err), { Task("error", owner, n, p.err, None, None) })

\* process_stream_data: classify one payload by key priority
\* content > step > error > other.
process_stream_data(data, owner, n) ==
    LET p == parse_ai_response(data) IN
    IF p.ok
    THEN LET content == as_str(p.val.content)
             step == as_str(p.val.step)
             error_msg == as_str(p.val.error)
         IN IF content # None
            THEN Decoded(Chunk("Content", content[1]),
                         { Task("content", owner, n, content[1],
                                 step, as_str(p.val.verbose_step)) })
            ELSE IF step # None
            THEN Decoded(Chunk("StatusUpdate", step[1]),
                         { Task("step", owner, n, "", step, None) })
            ELSE IF error_msg # None
            THEN Decoded(Chunk("Err", error_msg[1]),
                         { Task("error", owner, n, error_msg[1], None, None) })
            ELSE Decoded(Chunk("RawData", data), {})
    ELSE Decoded(Chunk("RawData", data), {})

\* The events reqwest_eventsource hands to the closure of event_source.map.
OpenEvent == [kind |-> "Open", data |-> ""]
MessageEvent(data) == [kind |-> "Message", data |-> data]
ErrorEvent == [kind |-> "Error", data |-> "connection reset"]

Payloads ==
    { "{\"content\":\"a\"}",
      "{\"content\":\"b\",\"step\":\"writing\"}",
      "{\"step\":\"searching\"}",
      "[DONE]" }

Events == { MessageEvent(d) : d \in Payloads } \cup { ErrorEvent }

\* The closure of event_source.map after the timeout check.
map_event(ev, owner, n) ==
    CASE ev.kind = "Open" -> Decoded(Chunk("ConnectionOpened", ""), {})
      [] ev.kind = "Message" ->
            IF ev.data = "[DONE]"
            THEN Decoded(Chunk("Done", ""), { Task("done", owner, n, "", None, None) })
            ELSE process_stream_data(ev.data, owner, n)
      [] OTHER ->
            Decoded(Chunk("Err", "Stream event error: " \o ev.data),
                    { Task("error", owner, n, ev.data, None, None) })

\* format!("Stream timeout after {} seconds", timeout_secs)
timeout_msg == "Stream timeout after " \o ToString(stream_timeout) \o " seconds"

\* Mutant: the Open event and the [DONE] sentinel are decoded before the
\* elapsed time is looked at.
stream_item_DecodesFirst(ev, owner, n, start_time) ==
    IF ev.kind = "Open" \/ (ev.kind = "Message" /\ ev.data = "[DONE]")
    THEN map_event(ev, owner, n)
    ELSE IF clock - start_time >= stream_timeout
         THEN Decoded(Chunk("Err", timeout_msg),
                      { Task("error", owner, n, timeout_msg, None, None) })
         ELSE map_event(ev, owner, n)

\* The closure of event_source.map: the timeout check, then the decoding.
stream_item(ev, owner, n, start_time) ==
    IF clock - start_time >= stream_timeout
    THEN Decoded(Chunk("Err", timeout_msg),
                 { Task("error", owner, n, timeout_msg, None, None) })
    ELSE map_event(ev, owner, n)

\* A call site invokes answer_stream(data). The stream a call site holds from
\* an earlier call has ended or been dropped by then.
StartAnswerStream(c, R) ==
    /\ call[c].pc \in {"idle", "done"}
    /\ streams[c].status # "open"
    /\ turns < MaxTurns
    /\ \E data \in R :
          call' = [call EXCEPT ![c] = [IdleCall EXCEPT !.op = "answer_stream",
                                                      !.pc = "store_params",
                                                      !.stream = TRUE,
                                                      !.data = data]]
    /\ turns' = turns + 1
    /\ UNCHANGED << caller_vars, session_id, llm_config, messages, state,
                    last_interaction_params, streams, tasks, uuids, clock >>

\* answer_stream after the pushes: get_auth_ref, then create_resilient_stream
\* (EventSource::new). Either may fail, which returns the error (the `?`).
OpenOutcomes == {"ok", "auth", "eventsource"}

\* Mutant: a stream that cannot be created marks the Interaction as errored.
OpenStream_MarksError(c, O) ==
    /\ call[c].pc = "open_stream"
    /\ \E outcome \in O :
          CASE outcome = "auth" ->
                 /\ call' = [call EXCEPT ![c].result = Err("auth: no reference"),
                                         ![c].pc = "done"]
                 /\ state' = IF state = <<>> THEN state
                             ELSE [state EXCEPT ![Len(state)].error = TRUE,
                                                ![Len(state)].loading = FALSE]
                 /\ UNCHANGED streams
            [] outcome = "eventsource" ->
                 /\ call' = [call EXCEPT ![c].result = Err("EventSource creation failed"),
                                         ![c].pc = "done"]
                 /\ state' = IF state = <<>> THEN state
                             ELSE [state EXCEPT ![Len(state)].error = TRUE,
                                                ![Len(state)].loading = FALSE]
                 /\ UNCHANGED streams
            [] OTHER ->
                 /\ streams' = [streams EXCEPT ![c] =
                                   [status |-> "open", start_time |-> clock,
                                    polled |-> 0, events |-> <<>>, items |-> <<>>]]
                 /\ call' = IF call[c].op = "regenerate_last"
                            THEN Goto(c, "collect")
                            ELSE [call EXCEPT ![c].result = Ok("stream"), ![c].pc = "done"]
                 /\ UNCHANGED state
    /\ UNCHANGED << caller_vars, session_id, llm_config, messages,
                    last_interaction_params, tasks, uuids, turns, clock >>

OpenStream(c, O) ==
    /\ call[c].pc = "open_stream"
    /\ \E outcome \in O :
          CASE outcome = "auth" ->
                 /\ call' = [call EXCEPT ![c].result = Err("auth: no reference"),
                                         ![c].pc = "done"]
                 /\ UNCHANGED streams
            [] outcome = "eventsource" ->
                 /\ call' = [call EXCEPT ![c].result = Err("EventSource creation failed"),
                                         ![c].pc = "done"]
                 /\ UNCHANGED streams
            [] OTHER ->
                 /\ streams' = [streams EXCEPT ![c] =
                                   [status |-> "open", start_time |-> clock,
                                    polled |-> 0, events |-> <<>>, items |-> <<>>]]
                 /\ call' = IF call[c].op = "regenerate_last"
                            THEN Goto(c, "collect")
                            ELSE [call EXCEPT ![c].result = Ok("stream"), ![c].pc = "done"]
    /\ UNCHANGED << caller_vars, session_id, llm_config, messages, state,
                    last_interaction_params, tasks, uuids, turns, clock >>

\* Mutant: the newest item is handed over ahead of the ones before it.
Pull_NewestFirst(c, ev, status) ==
    LET n == streams[c].polled + 1
        d == stream_item(ev, c, n, streams[c].start_time)
    IN  /\ streams' = [streams EXCEPT ![c].polled = n,
                                      ![c].events = Append(@, ev),
                                      ![c].items = << d.item >> \o @,
                                      ![c].status = status]
        /\ tasks' = tasks \cup d.spawn

\* One stream.next(): the transport hands over event ev, the closure maps it
\* to an item and spawns the item's update task.
Pull(c, ev, status) ==
    LET n == streams[c].polled + 1
        d == stream_item(ev, c, n, streams[c].start_time)
    IN  /\ streams' = [streams EXCEPT ![c].polled = n,
                                      ![c].events = Append(@, ev),
                                      ![c].items = Append(@, d.item),
                                      ![c].status = status]
        /\ tasks' = tasks \cup d.spawn

\* The holder of the stream answer_stream returned pulls the next item.
ConsumerPoll(c, E) ==
    /\ streams[c].status = "open"
    /\ call[c].pc # "collect"
    /\ streams[c].polled < MaxEvents
    /\ \E ev \in E : Pull(c, ev, "open")
    /\ UNCHANGED << caller_vars, session_id, llm_config, messages, state,
                    last_interaction_params, call, uuids, turns, clock >>

\* The transport closes: stream.next() yields None.
StreamEnds(c) ==
    /\ streams[c].status = "open"
    /\ call[c].pc # "collect"
    /\ streams' = [streams EXCEPT ![c].status = "ended"]
    /\ UNCHANGED << caller_vars, session_id, llm_config, messages, state,
                    last_interaction_params, call, tasks, uuids, turns, clock >>

\* The holder drops the stream before it is exhausted: nothing but the
\* EventSource is released.
DropStream(c) ==
    /\ streams[c].status = "open"
    /\ call[c].pc # "collect"
    /\ streams' = [streams EXCEPT ![c].status = "dropped"]
    /\ UNCHANGED << caller_vars, session_id, llm_config, messages, state,
                    last_interaction_params, call, tasks, uuids, turns, clock >>

\* ------------------------------------------------------- detached tasks
\* Mutant: with no message left, the content task pushes a new Assistant
\* message holding the text.
AppendToLastAssistant_Recreates(msgs, text) ==
    IF msgs = <<>> THEN << Message("Assistant", text) >>
    ELSE IF Last(msgs).role = "Assistant"
    THEN [msgs EXCEPT ![Len(msgs)].content = @ \o text]
    ELSE msgs

\* The content task's first block: push_str on the last message if it is
\* an Assistant message.
AppendToLastAssistant(msgs, text) ==
    IF msgs # <<>> /\ Last(msgs).role = "Assistant"
    THEN [msgs EXCEPT ![Len(msgs)].content = @ \o text]
    ELSE msgs

\* The content task's second block, on state.last_mut().
AppendToLastInteraction(st, text, step, verbose) ==
    IF st = <<>> THEN st
    ELSE [st EXCEPT ![Len(st)].response = @ \o text,
                    ![Len(st)].current_step = IF step # None THEN step ELSE @,
                    ![Len(st)].current_step_verbose = IF verbose # None THEN verbose ELSE @]

\* The status task.
SetLastStep(st, step) ==
    IF st = <<>> THEN st ELSE [st EXCEPT ![Len(st)].current_step = step]

\* Mutant: the "[DONE]" update also withdraws the error mark.
FinishLastInteraction_ClearsError(st) ==
    IF st = <<>> THEN st
    ELSE [st EXCEPT ![Len(st)].loading = FALSE,
                    ![Len(st)].error = FALSE,
                    ![Len(st)].current_step = Some("completed")]

\* The task spawned for "[DONE]".
FinishLastInteraction(st) ==
    IF st = <<>> THEN st
    ELSE [st EXCEPT ![Len(st)].loading = FALSE,
                    ![Len(st)].current_step = Some("completed")]

\* Mutant: marking the error also resets what the turn had accumulated.
mark_interaction_error_Resets(st, error_message) ==
    IF st = <<>> THEN st
    ELSE [st EXCEPT ![Len(st)].error = TRUE,
                    ![Len(st)].error_message = Some(error_message),
                    ![Len(st)].loading = FALSE,
                    ![Len(st)].response = "",
                    ![Len(st)].current_step = None]

\* mark_interaction_error
mark_interaction_error(st, error_message) ==
    IF st = <<>> THEN st
    ELSE [st EXCEPT ![Len(st)].error = TRUE,
                    ![Len(st)].error_message = Some(error_message),
                    ![Len(st)].loading = FALSE]

\* The runtime runs one block of one spawned task, whichever it picks.
RunTask(t) ==
    /\ t \in tasks
    /\ CASE t.kind = "content" /\ t.phase = "messages" ->
              /\ messages' = AppendToLastAssistant(messages, t.text)
              /\ tasks' = (tasks \ {t}) \cup {[t EXCEPT !.phase = "state"]}
              /\ UNCHANGED state
         [] t.kind = "content" /\ t.phase = "state" ->
              /\ state' = AppendToLastInteraction(state, t.text, t.step, t.verbose)
              /\ tasks' = tasks \ {t}
              /\ UNCHANGED messages
         [] t.kind = "step" ->
              /\ state' = SetLastStep(state, t.step)
              /\ tasks' = tasks \ {t}
              /\ UNCHANGED messages
         [] t.kind = "done" ->
              /\ state' = FinishLastInteraction(state)
              /\ tasks' = tasks \ {t}
              /\ UNCHANGED messages
         [] OTHER ->
              /\ state' = mark_interaction_error(state, t.text)
              /\ tasks' = tasks \ {t}
              /\ UNCHANGED messages
    /\ UNCHANGED << caller_vars, session_id, llm_config, last_interaction_params, call,
                    streams, uuids, turns, clock >>

\* ------------------------------------------------------- regenerate_last
\* A call site invokes regenerate_last(stream). (The stream a streaming
\* regeneration opens takes the call site's stream slot, so an earlier stream
\* of the call site has ended or been dropped by then.)
StartRegenerate(c, B) ==
    /\ call[c].pc \in {"idle", "done"}
    /\ turns < MaxTurns
    /\ \E stream \in B :
          /\ stream => streams[c].status # "open"
          /\ call' = [call EXCEPT ![c] = [IdleCall EXCEPT !.op = "regenerate_last",
                                                      !.pc = "read_state_len",
                                                      !.stream = stream]]
    /\ turns' = turns + 1
    /\ UNCHANGED << caller_vars, session_id, llm_config, messages, state,
                    last_interaction_params, streams, tasks, uuids, clock >>

\* let state_len = state.len() under the state read lock
ReadStateLen(c) ==
    /\ call[c].pc = "read_state_len"
    /\ call' = [call EXCEPT ![c].state_len = Len(state), ![c].pc = "read_messages_len"]
    /\ UNCHANGED << caller_vars, session_id, llm_config, messages, state,
                    last_interaction_params, streams, tasks, uuids, turns, clock >>

\* Mutant: the two lengths joined by && instead of ||.
NoHistoryBoth(state_len, messages_len) == state_len = 0 /\ messages_len = 0

\* let messages_len = messages.len(), then the "No messages to regenerate" check
NoHistory(state_len, messages_len) == state_len = 0 \/ messages_len = 0

ReadMessagesLen(c) ==
    /\ call[c].pc = "read_messages_len"
    /\ call' = IF NoHistory(call[c].state_len, Len(messages))
               THEN [call EXCEPT ![c].messages_len = Len(messages),
                                 ![c].result = Err("No messages to regenerate"),
                                 ![c].pc = "done"]
               ELSE [call EXCEPT ![c].messages_len = Len(messages),
                                 ![c].pc = "check_role"]
    /\ UNCHANGED << caller_vars, session_id, llm_config, messages, state,
                    last_interaction_params, streams, tasks, uuids, turns, clock >>

\* "Check if last message is from assistant"
LastIsNotAssistant(msgs) == msgs # <<>> /\ Last(msgs).role # "Assistant"

CheckRole(c) ==
    /\ call[c].pc = "check_role"
    /\ call' = IF LastIsNotAssistant(messages)
               THEN [call EXCEPT ![c].result = Err("Last message is not an assistant message"),
                                 ![c].pc = "done"]
               ELSE Goto(c, "read_params")
    /\ UNCHANGED << caller_vars, session_id, llm_config, messages, state,
                    last_interaction_params, streams, tasks, uuids, turns, clock >>

\* "Get the last interaction parameters": params.clone(), then ok_or_else
ReadParams(c) ==
    /\ call[c].pc = "read_params"
    /\ call' = IF last_interaction_params = None
               THEN [call EXCEPT ![c].result = Err("No last interaction parameters available"),
                                 ![c].pc = "done"]
               ELSE [call EXCEPT ![c].last_params = last_interaction_params,
                                 ![c].pc = "pop_message"]
    /\ UNCHANGED << caller_vars, session_id, llm_config, messages, state,
                    last_interaction_params, streams, tasks, uuids, turns, clock >>

\* Vec::pop
Pop(s) == IF s = <<>> THEN s ELSE Front(s)

\* "Remove last assistant message and state": messages.pop()
PopMessage(c) ==
    /\ call[c].pc = "pop_message"
    /\ messages' = Pop(messages)
    /\ call' = Goto(c, "pop_state")
    /\ UNCHANGED << caller_vars, session_id, llm_config, state, last_interaction_params,
                    streams, tasks, uuids, turns, clock >>

\* Mutant: the Interaction is not popped.
PopStateSkipped(c) ==
    /\ call[c].pc = "pop_state"
    /\ call' = [call EXCEPT ![c].data = call[c].last_params[1],
                            ![c].pc = "store_params"]
    /\ UNCHANGED << caller_vars, session_id, llm_config, messages, state, last_interaction_params,
                    streams, tasks, uuids, turns, clock >>

\* state.pop(), then self.answer(last_params) or self.answer_stream(last_params)
PopState(c) ==
    /\ call[c].pc = "pop_state"
    /\ state' = Pop(state)
    /\ call' = [call EXCEPT ![c].data = call[c].last_params[1],
                            ![c].pc = "store_params"]
    /\ UNCHANGED << caller_vars, session_id, llm_config, messages, last_interaction_params,
                    streams, tasks, uuids, turns, clock >>

\* "Collect the stream": one turn of the while-let loop of regenerate_last:
\* an item is pulled, or the stream is exhausted. Leaving the loop by `?` or
\* by break drops the stream, which is local to regenerate_last.
Collect(c, E) ==
    /\ call[c].pc = "collect"
    /\ \/ /\ streams[c].polled < MaxEvents
          /\ \E ev \in E :
                LET item == stream_item(ev, c, streams[c].polled + 1,
                                        streams[c].start_time).item
                IN  /\ Pull(c, ev, IF item.type \in {"Err", "Done"}
                                   THEN "dropped" ELSE "open")
                    /\ call' =
                         CASE item.type = "Err" ->
                                [call EXCEPT ![c].result = Err(item.text), ![c].pc = "done"]
                           [] item.type = "Content" ->
                                [call EXCEPT ![c].complete_response = @ \o item.text]
                           [] item.type = "Done" ->
                                [call EXCEPT ![c].result = Ok(call[c].complete_response),
                                             ![c].pc = "done"]
                           [] OTHER -> call
       \/ /\ call' = [call EXCEPT ![c].result = Ok(call[c].complete_response),
                                  ![c].pc = "done"]
          /\ streams' = [streams EXCEPT ![c].status = "ended"]
          /\ UNCHANGED tasks
    /\ UNCHANGED << caller_vars, session_id, llm_config, messages, state,
                    last_interaction_params, uuids, turns, clock >>

\* -------------------------------------------------------- clear_session
StartClear(c) ==
    /\ call[c].pc \in {"idle", "done"}
    /\ call' = [call EXCEPT ![c] = [IdleCall EXCEPT !.op = "clear_session",
                                                   !.pc = "clear_messages"]]
    /\ UNCHANGED << caller_vars, session_id, llm_config, messages, state,
                    last_interaction_params, streams, tasks, uuids, turns, clock >>

\* Mutant: pop() in place of clear().
ClearMessagesPops(c) ==
    /\ call[c].pc = "clear_messages"
    /\ messages' = Pop(messages)
    /\ call' = Goto(c, "clear_state")
    /\ UNCHANGED << caller_vars, session_id, llm_config, state, last_interaction_params,
                    streams, tasks, uuids, turns, clock >>

\* messages.clear() under the messages write lock
ClearMessages(c) ==
    /\ call[c].pc = "clear_messages"
    /\ messages' = <<>>
    /\ call' = Goto(c, "clear_state")
    /\ UNCHANGED << caller_vars, session_id, llm_config, state, last_interaction_params,
                    streams, tasks, uuids, turns, clock >>

\* Mutant: the stored parameters are reset with the sequences.
ClearStateAndParams(c) ==
    /\ call[c].pc = "clear_state"
    /\ state' = <<>>
    /\ last_interaction_params' = None
    /\ call' = [call EXCEPT ![c].result = Ok(""), ![c].pc = "done"]
    /\ UNCHANGED << caller_vars, session_id, llm_config, messages,
                    streams, tasks, uuids, turns, clock >>

\* state.clear() under the state write lock; clear_session returns
ClearState(c) ==
    /\ call[c].pc = "clear_state"
    /\ state' = <<>>
    /\ call' = [call EXCEPT ![c].result = Ok(""), ![c].pc = "done"]
    /\ UNCHANGED << caller_vars, session_id, llm_config, messages, last_interaction_params,
                    streams, tasks, uuids, turns, clock >>

\* ------------------------------------------------------------ specification
\* One call site that starts an operation only when nothing is in flight:
\* every sequence of answer, consumed or dropped answer_stream,
\* regenerate_last and clear_session calls.
CoreEvents == { MessageEvent("{\"content\":\"a\"}"), MessageEvent("[DONE]") }

Init == InitWith(Constructors)

Next ==
    \/ \E c \in {"c1"} :
        \/ AtRest /\ StartAnswer(c, Requests)
        \/ AtRest /\ StartAnswerStream(c, Requests)
        \/ StoreParams(c)
        \/ PushMessages(c)
        \/ PushState(c)
        \/ Request(c, HttpResponses)
        \/ UpdateState(c)
        \/ UpdateMessage(c)
        \/ OpenStream(c, {"ok", "auth"})
        \/ ConsumerPoll(c, CoreEvents)
        \/ StreamEnds(c)
        \/ DropStream(c)
        \/ AtRest /\ StartRegenerate(c, BOOLEAN)
        \/ ReadStateLen(c)
        \/ ReadMessagesLen(c)
        \/ CheckRole(c)
        \/ ReadParams(c)
        \/ PopMessage(c)
        \/ PopState(c)
        \/ Collect(c, CoreEvents)
        \/ AtRest /\ StartClear(c)
        \/ ClearMessages(c)
        \/ ClearState(c)
    \/ \E t \in tasks : RunTask(t)

Spec == Init /\ [][Next]_vars

\* answer against a transport that answers with any status class, with or
\* without an "answer" in the body.
AllResponses ==
    { [status |-> s, answer |-> b] :
        s \in {200, 204, 301, 400, 401, 403, 404, 500}, b \in {None, Some("ok")} }

NextHttp ==
    \E c \in {"c1"} :
        \/ StartAnswer(c, Requests)
        \/ StoreParams(c)
        \/ PushMessages(c)
        \/ PushState(c)
        \/ Request(c, AllResponses)
        \/ UpdateState(c)
        \/ UpdateMessage(c)

SpecHttp == Init /\ [][NextHttp]_vars

\* One answer_stream turn on a fresh session, with every kind of transport
\* event and the clock running.
StreamRequests == { AnswerConfig("q1", None, None, None, None) }

StreamEvents == Events \cup { OpenEvent, MessageEvent("{\"error\":\"boom\"}") }

\* Time passes while a stream is open.
Tick ==
    /\ \E c \in Callers : streams[c].status = "open"
    /\ clock < stream_timeout
    /\ clock' = clock + 1
    /\ UNCHANGED << caller_vars, session_id, llm_config, messages, state,
                    last_interaction_params, call, streams, tasks, uuids, turns >>

NextStream ==
    \/ \E c \in {"c1"} :
        \/ turns = 0 /\ StartAnswerStream(c, StreamRequests)
        \/ StoreParams(c)
        \/ PushMessages(c)
        \/ PushState(c)
        \/ OpenStream(c, OpenOutcomes)
        \/ ConsumerPoll(c, StreamEvents)
        \/ StreamEnds(c)
        \/ DropStream(c)
    \/ \E t \in tasks : RunTask(t)
    \/ Tick

SpecStream == Init /\ [][NextStream]_vars

\* The same, with the runtime running every spawned task it holds sooner or
\* later (a tokio task that is ready is eventually polled).
SpecStreamFair == SpecStream /\ WF_vars(\E t \in tasks : RunTask(t))

\* Two call sites issuing answer / answer_stream concurrently.
CallerRequests(c) ==
    { AnswerConfig(IF c = "c1" THEN "q1" ELSE "q2", None, None, None, None) }

OkResponses == { [status |-> 200, answer |-> Some("ok")] }

NextConc ==
    \/ \E c \in Callers :
        \/ StartAnswer(c, CallerRequests(c))
        \/ StartAnswerStream(c, CallerRequests(c))
        \/ StoreParams(c)
        \/ PushMessages(c)
        \/ PushState(c)
        \/ Request(c, OkResponses)
        \/ UpdateState(c)
        \/ UpdateMessage(c)
        \/ OpenStream(c, {"ok"})
        \/ StreamEnds(c)

SpecConc == InitWith({[llm_config |-> None, initial_messages |-> <<>>]}) /\ [][NextConc]_vars

\* One call site whose operations may start while its earlier stream is
\* still open or its detached tasks are still pending.
NextOverlap ==
    \/ \E c \in {"c1"} :
        \/ StartAnswer(c, StreamRequests)
        \/ StartAnswerStream(c, StreamRequests)
        \/ StoreParams(c)
        \/ PushMessages(c)
        \/ PushState(c)
        \/ Request(c, OkResponses)
        \/ UpdateState(c)
        \/ UpdateMessage(c)
        \/ OpenStream(c, {"ok"})
        \/ ConsumerPoll(c, CoreEvents)
        \/ StreamEnds(c)
        \/ StartRegenerate(c, {FALSE})
        \/ ReadStateLen(c)
        \/ ReadMessagesLen(c)
        \/ CheckRole(c)
        \/ ReadParams(c)
        \/ PopMessage(c)
        \/ PopState(c)
        \/ StartClear(c)
        \/ ClearMessages(c)
        \/ ClearState(c)
    \/ \E t \in tasks : RunTask(t)

SpecOverlap ==
    InitWith({[llm_config |-> None, initial_messages |-> <<>>]}) /\ [][NextOverlap]_vars

\* Requests with every combination of the four optional fields enrich_config
\* looks at left out or supplied, and one more field it does not look at.
AllRequests ==
    { AnswerConfig("q1", i, v, sid, l) @@ [max_documents |-> Some(5)] :
        i \in {None, Some("i-given")}, v \in {None, Some("v-given")},
        sid \in {None, Some("s-given")}, l \in {None, Some("llm-req")} }

\* One call site issuing such requests one after another through answer,
\* answer_stream and regenerate_last.
NextEnrich ==
    \/ \E c \in {"c1"} :
        \/ AtRest /\ StartAnswer(c, AllRequests)
        \/ AtRest /\ StartAnswerStream(c, AllRequests)
        \/ StoreParams(c)
        \/ PushMessages(c)
        \/ PushState(c)
        \/ Request(c, OkResponses)
        \/ UpdateState(c)
        \/ UpdateMessage(c)
        \/ OpenStream(c, {"ok"})
        \/ StreamEnds(c)
        \/ AtRest /\ StartRegenerate(c, BOOLEAN)
        \/ ReadStateLen(c)
        \/ ReadMessagesLen(c)
        \/ CheckRole(c)
        \/ ReadParams(c)
        \/ PopMessage(c)
        \/ PopState(c)
        \/ Collect(c, {MessageEvent("[DONE]")})
    \/ \E t \in tasks : RunTask(t)

SpecEnrich == Init /\ [][NextEnrich]_vars

\* One answer_stream turn whose transport delivers payloads with several of
\* the keys content / step / verbose_step / error, with keys that are no
\* strings, with none of the keys, and payloads that are no JSON.
DecodePayloads ==
    { "{\"content\":\"c\",\"error\":\"boom\"}",
      "{\"content\":\"d\",\"step\":\"writing\",\"verbose_step\":\"Writing it\"}",
      "{\"content\":\"b\",\"step\":\"writing\"}",
      "{\"step\":\"searching\",\"error\":\"boom\"}",
      "{\"content\":1,\"step\":\"searching\"}",
      "{\"step\":2,\"error\":\"boom\"}",
      "{\"hits\":3}",
      "",
      "not json" }

DecodeEvents == { MessageEvent(d) : d \in DecodePayloads }

NextDecode ==
    \/ \E c \in {"c1"} :
        \/ turns = 0 /\ StartAnswerStream(c, StreamRequests)
        \/ StoreParams(c)
        \/ PushMessages(c)
        \/ PushState(c)
        \/ OpenStream(c, {"ok"})
        \/ ConsumerPoll(c, DecodeEvents)
        \/ StreamEnds(c)
    \/ \E t \in tasks : RunTask(t)
    \/ Tick

SpecDecode == Init /\ [][NextDecode]_vars

\* One answer_stream turn whose caller calls clear_session at any moment
\* after answer_stream has returned the stream: before, between or after the
\* polls, and before or after the spawned updates run.
ClearEvents ==
    { MessageEvent("{\"content\":\"a\"}"),
      MessageEvent("{\"content\":\"b\",\"step\":\"writing\"}"),
      MessageEvent("[DONE]") }

NextClear ==
    \/ \E c \in {"c1"} :
        \/ turns = 0 /\ StartAnswerStream(c, StreamRequests)
        \/ StoreParams(c)
        \/ PushMessages(c)
        \/ PushState(c)
        \/ OpenStream(c, {"ok"})
        \/ ConsumerPoll(c, ClearEvents)
        \/ StreamEnds(c)
        \/ StartClear(c)
        \/ ClearMessages(c)
        \/ ClearState(c)
    \/ \E t \in tasks : RunTask(t)

SpecClear ==
    InitWith({[llm_config |-> None, initial_messages |-> <<>>]}) /\ [][NextClear]_vars

\* Two call sites calling regenerate_last(false) concurrently on a session
\* that holds one completed turn: the state after new() and answer("q1")
\* answered with "ok".
InitAfterAnswer ==
    /\ llm_config = None
    /\ session_id = generate_uuid(0)
    /\ messages = SetLastMessage(PushTurnMessages(<<>>, "q1"), "ok")
    /\ state = CompleteLastInteraction(<< NewInteraction(generate_uuid(1), "q1") >>, "ok")
    /\ last_interaction_params =
          Some(enrich_config(AnswerConfig("q1", None, None, None, None), 1))
    /\ call = [c \in Callers |-> IdleCall]
    /\ streams = [c \in Callers |-> NoStream]
    /\ tasks = {}
    /\ uuids = 1
    /\ turns = 0
    /\ clock = 0
    /\ snapshot = NoSnapshot
    /\ last_called = None
    /\ executions = <<>>
    /\ parsed = <<>>
    /\ lock_pc = [p \in LockOps |-> 1]

NextRegen ==
    \E c \in Callers :
        \/ call[c].pc = "idle" /\ StartRegenerate(c, {FALSE})
        \/ ReadStateLen(c)
        \/ ReadMessagesLen(c)
        \/ CheckRole(c)
        \/ ReadParams(c)
        \/ PopMessage(c)
        \/ PopState(c)
        \/ StoreParams(c)
        \/ PushMessages(c)
        \/ PushState(c)
        \/ Request(c, OkResponses)
        \/ UpdateState(c)
        \/ UpdateMessage(c)

SpecRegen == InitAfterAnswer /\ [][NextRegen]_vars

\* One answer_stream turn and the answer turns that follow it on the same
\* call site, started while the stream may still be open, against a
\* transport that delivers content, "[DONE]" or an error payload, with the
\* clock running.
LifetimeEvents ==
    { MessageEvent("{\"content\":\"a\"}"), MessageEvent("[DONE]"),
      MessageEvent("{\"error\":\"boom\"}") }

NextLifetime ==
    \/ \E c \in {"c1"} :
        \/ turns = 0 /\ StartAnswerStream(c, StreamRequests)
        \/ tasks = {} /\ StartAnswer(c, StreamRequests)
        \/ StoreParams(c)
        \/ PushMessages(c)
        \/ PushState(c)
        \/ Request(c, OkResponses)
        \/ UpdateState(c)
        \/ UpdateMessage(c)
        \/ OpenStream(c, {"ok"})
        \/ ConsumerPoll(c, LifetimeEvents)
        \/ StreamEnds(c)
    \/ \E t \in tasks : RunTask(t)
    \/ Tick

SpecLifetime ==
    InitWith({[llm_config |-> None, initial_messages |-> <<>>]}) /\ [][NextLifetime]_vars

\* regenerate_last calls, streaming or not, one after another on a session
\* that starts with one completed turn, with a request that succeeds or fails: the API call is refused, the
\* stream cannot be created, or the stream reports an error.
RegenEvents ==
    { MessageEvent("{\"content\":\"a\"}"), MessageEvent("[DONE]"),
      MessageEvent("{\"error\":\"boom\"}") }

NextRegenFail ==
    \/ \E c \in {"c1"} :
        \/ AtRest /\ StartRegenerate(c, BOOLEAN)
        \/ ReadStateLen(c)
        \/ ReadMessagesLen(c)
        \/ CheckRole(c)
        \/ ReadParams(c)
        \/ PopMessage(c)
        \/ PopState(c)
        \/ StoreParams(c)
        \/ PushMessages(c)
        \/ PushState(c)
        \/ Request(c, HttpResponses)
        \/ UpdateState(c)
        \/ UpdateMessage(c)
        \/ OpenStream(c, OpenOutcomes)
        \/ Collect(c, RegenEvents)
    \/ \E t \in tasks : RunTask(t)

SpecRegenFail == InitAfterAnswer /\ [][NextRegenFail]_vars

\* ------------------------------------------------------------------ locks
\* The three tokio::sync::RwLock of the session and the instructions of an
\* operation on them: `lock.read().await` / `lock.write().await`, and the
\* drop of the guard at the end of the block.
Locks == { "messages", "state", "last_interaction_params" }

Acq(lock, mode) == [ins |-> "acquire", lock |-> lock, mode |-> mode]
Rel(lock) == [ins |-> "release", lock |-> lock, mode |-> "none"]

\* { let guard = lock.read()/write().await; ... }
Section(lock, mode) == << Acq(lock, mode), Rel(lock) >>

\* answer_stream up to the creation of the stream: store the parameters, push
\* the messages, push the Interaction.
answer_stream_locks ==
    Section("last_interaction_params", "write") \o Section("messages", "write")
        \o Section("state", "write")

\* Mutant: the operations that write both sequences hold the first lock while
\* taking the second; answer finishes state-then-messages, clear_session and
\* the content task go messages-then-state.
LockProgram_Nested(p) ==
    CASE p = "answer" ->
            answer_stream_locks
                \o << Acq("state", "write"), Acq("messages", "write"),
                      Rel("messages"), Rel("state") >>
      [] p = "regenerate_last" ->
            Section("state", "read") \o Section("messages", "read")
                \o Section("messages", "read")
                \o Section("last_interaction_params", "read")
                \o Section("messages", "write") \o Section("state", "write")
                \o answer_stream_locks
      [] p = "clear_session" ->
            << Acq("messages", "write"), Acq("state", "write"),
               Rel("state"), Rel("messages") >>
      [] p = "get_messages" -> Section("messages", "read")
      [] p = "get_state" -> Section("state", "read")
      [] p = "content_task" ->
            << Acq("messages", "write"), Acq("state", "write"),
               Rel("state"), Rel("messages") >>
      [] OTHER -> Section("state", "write")

\* The lock instructions of each operation, in program order.
LockPrograms ==
    [ p \in LockOps |->
        CASE p = "answer" ->
                answer_stream_locks \o Section("state", "write")
                    \o Section("messages", "write")
          [] p = "regenerate_last" ->
                Section("state", "read") \o Section("messages", "read")
                    \o Section("messages", "read")
                    \o Section("last_interaction_params", "read")
                    \o Section("messages", "write") \o Section("state", "write")
                    \o answer_stream_locks
          [] p = "clear_session" ->
                Section("messages", "write") \o Section("state", "write")
          [] p = "get_messages" -> Section("messages", "read")
          [] p = "get_state" -> Section("state", "read")
          [] p = "content_task" ->
                Section("messages", "write") \o Section("state", "write")
          [] OTHER -> Section("state", "write") ]

LockProgram(p) == LockPrograms[p]

\* The guards operation p holds: acquired by an instruction it has run and
\* not released since.
Held(p) ==
    LET prog == LockProgram(p)
        done == 1..(lock_pc[p] - 1)
    IN { prog[i] : i \in { k \in done :
                              /\ prog[k].ins = "acquire"
                              /\ \A j \in done : j > k => prog[j] # Rel(prog[k].lock) } }

LockDone(p) == lock_pc[p] > Len(LockProgram(p))

\* RwLock: a write guard excludes every other guard, a read guard excludes
\* write guards.
Grantable(p, a) ==
    \A q \in LockOps \ {p} : \A h \in Held(q) :
        h.lock = a.lock => (a.mode = "read" /\ h.mode = "read")

\* Operation p waits in lock.read().await / lock.write().await.
Waiting(p) ==
    /\ ~LockDone(p)
    /\ LockProgram(p)[lock_pc[p]].ins = "acquire"
    /\ ~Grantable(p, LockProgram(p)[lock_pc[p]])

\* Operation p runs its next lock instruction: it is granted the lock it asks
\* for, or it drops a guard.
LockStep(p) ==
    /\ ~LockDone(p)
    /\ ~Waiting(p)
    /\ lock_pc' = [lock_pc EXCEPT ![p] = @ + 1]
    /\ UNCHANGED << snapshot, last_called, executions, parsed, session_id, llm_config,
                    messages, state, last_interaction_params, call, streams, tasks,
                    uuids, turns, clock >>

NextLocks == \E p \in LockOps : LockStep(p)

SpecLocks == Init /\ [][NextLocks]_vars

\* While some operation can take its next step, one of them is scheduled
\* (the tokio runtime polls a task that is ready).
SpecLocksFair == SpecLocks /\ WF_vars(NextLocks)

\* ------------------------------------------------ get_messages / get_state
\* What the caller holds after a getter returned: an owned copy of the
\* sequence as it was (kind "copy", the value in val), or a view of the live
\* sequence (kind "view").
\* Mutant: get_messages hands out a view of the live sequence.
get_messages_LiveView == [of |-> "messages", kind |-> "view", val |-> <<>>]

\* get_messages: messages.clone() under the read lock
get_messages == [of |-> "messages", kind |-> "copy", val |-> messages]

\* get_state: state.clone() under the read lock
get_state == [of |-> "state", kind |-> "copy", val |-> state]

\* What the caller reads in what it holds, the session being at msgs / st.
Seen(snap, msgs, st) ==
    IF snap.kind = "copy" THEN snap.val
    ELSE IF snap.of = "messages" THEN msgs ELSE st

\* The caller calls get_messages() (at any moment: the getter only waits for
\* the read lock).
GetMessages ==
    /\ snapshot = NoSnapshot
    /\ snapshot' = get_messages
    /\ UNCHANGED << last_called, executions, parsed, lock_pc, session_id, llm_config, messages,
                    state, last_interaction_params, call, streams, tasks, uuids,
                    turns, clock >>

\* The caller calls get_state().
GetState ==
    /\ snapshot = NoSnapshot
    /\ snapshot' = get_state
    /\ UNCHANGED << last_called, executions, parsed, lock_pc, session_id, llm_config, messages,
                    state, last_interaction_params, call, streams, tasks, uuids,
                    turns, clock >>

\* A session that streams its first turn, regenerates it and is cleared,
\* while the caller takes a snapshot at some moment and keeps it.
SnapshotEvents ==
    { MessageEvent("{\"content\":\"a\"}"), MessageEvent("{\"step\":\"searching\"}") }

NextSnapshot ==
    \/ \E c \in {"c1"} :
        \/ turns = 0 /\ StartAnswerStream(c, StreamRequests)
        \/ StoreParams(c)
        \/ PushMessages(c)
        \/ PushState(c)
        \/ OpenStream(c, {"ok"})
        \/ ConsumerPoll(c, SnapshotEvents)
        \/ StreamEnds(c)
        \/ AtRest /\ StartRegenerate(c, {FALSE})
        \/ ReadStateLen(c)
        \/ ReadMessagesLen(c)
        \/ CheckRole(c)
        \/ ReadParams(c)
        \/ PopMessage(c)
        \/ PopState(c)
        \/ Request(c, OkResponses)
        \/ UpdateState(c)
        \/ UpdateMessage(c)
        \/ AtRest /\ StartClear(c)
        \/ ClearMessages(c)
        \/ ClearState(c)
    \/ \E t \in tasks : RunTask(t)
    \/ GetMessages
    \/ GetState

SpecSnapshot ==
    InitWith({[llm_config |-> None, initial_messages |-> <<>>]}) /\ [][NextSnapshot]_vars

\* ---------------------------------------------------------------- Throttle
\* Throttle::new(limit_ms): the limit of the throttle, in units of the clock.
limit == 2

\* Mutant: a throttled call moves the reference time too.
Execute_MovesReference(f) ==
    /\ Len(executions) < MaxCalls
    /\ LET now == clock
           throttled == last_called # None /\ now - last_called[1] < limit
       IN /\ last_called' = Some(now)
          /\ executions' = Append(executions,
                                  [at |-> now, ran |-> ~throttled,
                                   result |-> IF throttled THEN None ELSE Some(f)])
    /\ UNCHANGED << snapshot, parsed, lock_pc, session_id, llm_config, messages, state,
                    last_interaction_params, call, streams, tasks, uuids, turns,
                    clock >>

\* Throttle::execute(f), the whole body under the last_called lock. f is the
\* closure, named by the value it returns; executions logs each call: when it
\* read the clock, whether f ran, and what execute returned.
Execute(f) ==
    /\ Len(executions) < MaxCalls
    /\ LET now == clock
           throttled == last_called # None /\ now - last_called[1] < limit
       IN /\ last_called' = IF throttled THEN last_called ELSE Some(now)
          /\ executions' = Append(executions,
                                  [at |-> now, ran |-> ~throttled,
                                   result |-> IF throttled THEN None ELSE Some(f)])
    /\ UNCHANGED << snapshot, parsed, lock_pc, session_id, llm_config, messages, state,
                    last_interaction_params, call, streams, tasks, uuids, turns,
                    clock >>

\* Time passes between two calls.
Sleep ==
    /\ clock < MaxClock
    /\ clock' = clock + 1
    /\ UNCHANGED << caller_vars, session_id, llm_config, messages, state,
                    last_interaction_params, call, streams, tasks, uuids, turns >>

\* A fresh throttle called at arbitrary moments.
NextThrottle ==
    \/ \E f \in {"r1", "r2"} : Execute(f)
    \/ Sleep

SpecThrottle == Init /\ [][NextThrottle]_vars

\* --------------------------------------------------------- safe_json_parse
\* Texts handed to the parser: valid JSON, JSON with a trailing comma, the
\* empty text, text that is no JSON.
ParseInputs ==
    { "{\"content\":\"a\"}", "{\"step\":\"searching\"}", "{\"hits\":3}",
      "{\"content\":\"a\",}", "", "not json" }

\* One call safe_json_parse::<serde_json::Value>(data); parsed logs the text
\* and what the call returned.
Parse(data) ==
    /\ Len(parsed) < MaxParses
    /\ parsed' = Append(parsed, [data |-> data, result |-> safe_json_parse(data)])
    /\ UNCHANGED << snapshot, last_called, executions, lock_pc, session_id, llm_config,
                    messages, state, last_interaction_params, call, streams, tasks,
                    uuids, turns, clock >>

NextParse == \E data \in ParseInputs : Parse(data)

SpecParse == Init /\ [][NextParse]_vars

\* ------------------------------------------------------------------ claims
RECURSIVE Contents(_)
\* The concatenation, in transport order, of the Content chunks among items.
Contents(items) ==
    IF items = <<>> THEN ""
    ELSE Contents(Front(items))
         \o (IF Last(items).type = "Content" THEN Last(items).text ELSE "")

EndsWith(text, suffix) ==
    /\ Len(suffix) <= Len(text)
    /\ SubSeq(text, Len(text) - Len(suffix) + 1, Len(text)) = suffix

\* C1: once every update spawned for the Content chunks c1..cn of the turn
\* has been applied, the last Interaction's response and the last Assistant
\* message's content both equal c1 + ... + cn in transport order.
\* (SpecStream; fails: the updates are detached tasks that run in any order.)
C1_ResponseIsConcatenation ==
    \A c \in Callers :
        (streams[c].status # "none" /\ tasks = {})
        => /\ Last(state).response = Contents(streams[c].items)
           /\ Last(messages).content = Contents(streams[c].items)

\* C2: at the step at which the consumer receives Content(text), the last
\* Interaction's response and the last Assistant message's content already
\* end with text, and a step carried by the chunk is already current_step.
\* (SpecStream; fails: the update is only spawned when the chunk is yielded.)
C2_ChunkAlreadyReflected ==
    [][ \A c \in Callers :
          (/\ Len(streams'[c].items) = Len(streams[c].items) + 1
           /\ Last(streams'[c].items).type = "Content"
           /\ Last(streams'[c].items).text # "")
          => /\ EndsWith(Last(state').response, Last(streams'[c].items).text)
             /\ EndsWith(Last(messages').content, Last(streams'[c].items).text) ]_vars

\* C3: whenever nothing is in flight, after any sequence of answer, consumed
\* answer_stream, regenerate_last and clear_session calls, the number of
\* messages is even and twice the number of interactions. Stated here for
\* the sessions whose history holds no seeded System message.
\* (Spec; fails: regenerate_last pops one message and answer pushes two.)
NoSystemMessage == \A i \in DOMAIN messages : messages[i].role # "System"

C3_PairedAtRest ==
    (AtRest /\ NoSystemMessage)
    => /\ Len(messages) % 2 = 0
       /\ Len(state) * 2 = Len(messages)

\* C4: under concurrent answer / answer_stream calls, once the calls have
\* returned, the k-th Interaction belongs to the k-th User+Assistant pair, and
\* the text answer returned is in the Interaction and the Assistant message
\* the same call appended.
\* (SpecConc; fails: the two pushes of a call are separate lock sections and
\* the response is written to whatever is last.)
C4_PairingUnderConcurrency ==
    (\A c \in Callers : call[c].pc \in {"idle", "done"})
    => /\ \A k \in 1..Len(state) :
             /\ 2 * k <= Len(messages)
             /\ messages[2 * k - 1] = Message("User", state[k].query)
       /\ \A c \in Callers :
             (call[c].op = "answer" /\ call[c].result.ok)
             => \E k \in 1..Len(state) :
                   /\ state[k].id = call[c].data.interaction_id[1]
                   /\ state[k].response = call[c].result.val
                   /\ 2 * k <= Len(messages)
                   /\ messages[2 * k].content = call[c].result.val

\* C5: after a successful regenerate_last the Message sequence is as long as
\* it was before the call (the turn was removed as a pair and replayed once).
\* (Spec; fails: only the Assistant message is popped, the User message of
\* the regenerated turn is pushed a second time.)
C5_RegenerateKeepsMessageCount ==
    \A c \in Callers :
        (call[c].op = "regenerate_last" /\ call[c].pc = "done" /\ call[c].result.ok)
        => Len(messages) = call[c].messages_len

\* C6: a regenerate_last call on a session with n >= 1 interactions at rest
\* leaves exactly n interactions. (Spec)
C6_RegenerateKeepsInteractionCount ==
    \A c \in Callers :
        (call[c].op = "regenerate_last" /\ call[c].pc = "done" /\ call[c].state_len >= 1)
        => Len(state) = call[c].state_len

C6_Witness ==
    \E c \in Callers :
        /\ call[c].op = "regenerate_last" /\ call[c].pc = "done"
        /\ call[c].state_len >= 1
        /\ call[c].stream /\ call[c].result = Ok("a")
        /\ Len(state) = 1

\* C7: regenerate_last on a session on which no request was ever issued
\* returns the "No messages to regenerate" error from its first check: it
\* never reaches the pops, a request or a stream, and no step of it changes
\* the messages, the interactions or the stored parameters. (Spec)
C7_RegenerateOnFreshSession ==
    [][ \A c \in Callers :
          (call[c].op = "regenerate_last" /\ last_interaction_params = None)
          => /\ messages' = messages
             /\ state' = state
             /\ last_interaction_params' = last_interaction_params
             /\ call'[c].op = "regenerate_last"
                => /\ call'[c].pc \in {"read_state_len", "read_messages_len", "done"}
                   /\ call'[c].pc = "done"
                      => call'[c].result = Err("No messages to regenerate") ]_vars

C7_Witness ==
    \E c \in Callers :
        /\ call[c].op = "regenerate_last" /\ call[c].pc = "done"
        /\ last_interaction_params = None
        /\ call[c].result = Err("No messages to regenerate")
        /\ messages # <<>>

\* C8 as claimed: regenerate_last fails with the missing-parameters error
\* when the stored parameters are absent, clear_session leaves them absent,
\* and regenerate_last after answer and clear_session reports that error.
\* (Spec; fails: clear_session does not touch the stored parameters.)
MissingParameters == Err("No last interaction parameters available")

C8_ClearDropsParameters ==
    [][ \A c \in Callers :
          /\ (call[c].pc = "read_params" /\ call'[c].pc # "read_params"
              /\ last_interaction_params = None)
             => call'[c].result = MissingParameters
          /\ (call[c].pc = "clear_state" /\ call'[c].pc = "done")
             => last_interaction_params' = None
          /\ (call[c].op = "regenerate_last" /\ call[c].pc # "done"
              /\ call'[c].pc = "done"
              /\ messages = <<>> /\ state = <<>> /\ last_interaction_params # None)
             => call'[c].result = MissingParameters ]_vars

\* C8 as amended: clear_session leaves the stored parameters as they are;
\* regenerate_last on the cleared session fails with "No messages to
\* regenerate"; the missing-parameters error is never reported. (Spec)
C8_ClearKeepsParameters ==
    [][ \A c \in Callers :
          /\ call[c].op = "clear_session"
             => last_interaction_params' = last_interaction_params
          /\ (call[c].op = "regenerate_last" /\ call[c].pc # "done"
              /\ call'[c].pc = "done"
              /\ messages = <<>> /\ state = <<>> /\ last_interaction_params # None)
             => call'[c].result = Err("No messages to regenerate")
          /\ call'[c].result # MissingParameters ]_vars

C8_Witness ==
    \E c \in Callers :
        /\ call[c].op = "regenerate_last" /\ call[c].pc = "done"
        /\ call[c].result = Err("No messages to regenerate")
        /\ messages = <<>> /\ state = <<>>
        /\ last_interaction_params # None

\* C9: regenerate_last is refused with the not-an-assistant-message error when
\* it runs its role check while the most recent turn is outstanding (its
\* Interaction is loading and its stream is still open).
\* (SpecOverlap; fails: the last message of an outstanding turn is the
\* Assistant placeholder, so the check passes.)
C9_RefusedMidTurn ==
    [][ \A c \in Callers :
          (/\ call[c].pc = "check_role" /\ call'[c].pc # "check_role"
           /\ state # <<>> /\ Last(state).loading
           /\ streams[c].status = "open")
          => /\ call'[c].pc = "done"
             /\ call'[c].result = Err("Last message is not an assistant message") ]_vars

\* C10: clear_session with nothing in flight leaves both sequences empty when
\* it returns, and no step of it changes the session identifier or the
\* session's default AI configuration. (Spec)
C10_ClearEmptiesKeepsIdentity ==
    [][ \A c \in Callers :
          (call[c].op = "clear_session" /\ call[c].pc # "done")
          => /\ session_id' = session_id
             /\ llm_config' = llm_config
             /\ call'[c].pc = "done" => (messages' = <<>> /\ state' = <<>>) ]_vars

C10_Witness ==
    \E c \in Callers :
        /\ call[c].op = "clear_session" /\ call[c].pc = "done"
        /\ messages = <<>> /\ state = <<>>
        /\ last_interaction_params # None
        /\ llm_config # None

\* Every item before the last one is a step or content chunk.
OnlyProgressBeforeLast(items) ==
    \A i \in 1..(Len(items) - 1) : items[i].type \in {"Content", "StatusUpdate"}

\* C11: when a turn's stream has delivered step/content events and then
\* [DONE], and every update they spawned has been applied, the turn's
\* Interaction has loading = false and current_step = "completed", and its
\* response is the concatenated content.
\* (SpecStream; fails: the [DONE] update and the step updates are detached
\* tasks, and a step update applied after the [DONE] update overwrites
\* "completed".)
C11_DoneFinalizes ==
    \A c \in Callers :
        (/\ streams[c].items # <<>>
         /\ Last(streams[c].items).type = "Done"
         /\ OnlyProgressBeforeLast(streams[c].items)
         /\ tasks = {})
        => /\ ~Last(state).loading
           /\ Last(state).current_step = Some("completed")
           /\ Last(state).response = Contents(streams[c].items)

\* The last two messages are the pair answer appended for query.
EndsWithFreshTurn(msgs, query) ==
    /\ Len(msgs) >= 2
    /\ msgs[Len(msgs) - 1] = Message("User", query)
    /\ msgs[Len(msgs)] = Message("Assistant", "")

\* C12: when the API call of answer fails, answer returns the error and no
\* text, and the turn it appended is as it was when appended: the User
\* message and the empty Assistant placeholder are the last two messages and
\* the last Interaction is the one Interaction::new built (loading, no error,
\* no error message, empty response, step "starting"). (Spec)
C12_FailedAnswerLeavesTurn ==
    [][ \A c \in Callers :
          (call[c].pc = "request" /\ call'[c].pc = "done")
          => /\ ~call'[c].result.ok
             /\ call'[c].result.val = ""
             /\ EndsWithFreshTurn(messages', call[c].data.query)
             /\ state' # <<>>
             /\ Last(state') = NewInteraction(call[c].data.interaction_id[1],
                                              call[c].data.query) ]_vars

C12_Witness ==
    \E c \in Callers :
        /\ call[c].op = "answer" /\ call[c].pc = "done"
        /\ call[c].result = Err("auth: Unauthorized")
        /\ Last(state).loading /\ ~Last(state).error
        /\ Last(messages) = Message("Assistant", "")

\* C13: once a failed answer has returned, the Interaction of that call is
\* either gone or has loading = false with error marked.
\* (Spec; fails: answer returns on the error without touching the
\* Interaction, which stays loading.)
C13_FailedAnswerNotLeftLoading ==
    \A c \in Callers :
        (call[c].op = "answer" /\ call[c].pc = "done" /\ ~call[c].result.ok)
        => \A k \in DOMAIN state :
              state[k].id = call[c].data.interaction_id[1]
              => (~state[k].loading /\ state[k].error)

StartsWith(text, prefix) ==
    /\ Len(prefix) <= Len(text)
    /\ SubSeq(text, 1, Len(prefix)) = prefix

\* C14: a call that received HTTP 401 has failed with the authentication
\* error; a call that received any other status outside 200..299 has failed
\* with the API error carrying that status; a call goes on to write an answer
\* or returns Ok only for a status in 200..299. (SpecHttp)
C14_StatusClasses ==
    \A c \in Callers :
        call[c].http # NoResponse
        => LET s == call[c].http.status
               success == s >= 200 /\ s <= 299
           IN  /\ s = 401
                  => (call[c].pc = "done" /\ call[c].result = Err("auth: Unauthorized"))
               /\ (~success /\ s # 401)
                  => /\ call[c].pc = "done"
                     /\ ~call[c].result.ok
                     /\ StartsWith(call[c].result.err, "api " \o ToString(s))
               /\ (call[c].pc \in {"update_state", "update_message"} \/ call[c].result.ok)
                  => success

C14_Witness ==
    \E c \in Callers :
        /\ call[c].op = "answer" /\ call[c].pc = "done"
        /\ call[c].http = [status |-> 401, answer |-> Some("ok")]
        /\ call[c].result = Err("auth: Unauthorized")

IsTimeout(item) == item.type = "Err" /\ item.text = timeout_msg

\* C15: a stream that passes its total timeout yields the timeout error once
\* and as its final item: no item follows a timeout error, whatever the
\* transport delivers after the deadline.
\* (SpecStream; fails: the check runs for every event, so every event
\* delivered after the deadline yields one more timeout error.)
C15_OneFinalTimeout ==
    \A c \in Callers :
        \A i \in DOMAIN streams[c].items :
            IsTimeout(streams[c].items[i]) => i = Len(streams[c].items)

\* The task t has just run to its end.
Finished(t) == t \in tasks /\ tasks' = tasks \ {t}

\* Applying the error update with message msg marks the last Interaction and
\* leaves everything else the turn has written as it is.
MarksAndRetains(msg) ==
    /\ Len(state') = Len(state)
    /\ Last(state') = [Last(state) EXCEPT !.error = TRUE,
                                          !.error_message = Some(msg),
                                          !.loading = FALSE]
    /\ Front(state') = Front(state)
    /\ messages' = messages

\* C16: on stream timeout the stream spawns the error update with the
\* timeout message, and that update sets error = true, error_message = the
\* timeout message and loading = false on the current Interaction while the
\* accumulated response, the current_step and the Assistant message content
\* stay as they were; the Interaction stays errored and not loading from
\* then on. (SpecStream)
C16_TimeoutMarksAndRetains ==
    [][ /\ \A c \in Callers :
             (/\ Len(streams'[c].items) = Len(streams[c].items) + 1
              /\ IsTimeout(Last(streams'[c].items)))
             => /\ \E t \in tasks' \ tasks : t.kind = "error" /\ t.text = timeout_msg
                /\ UNCHANGED << messages, state >>
        /\ \A t \in tasks :
             (t.kind = "error" /\ t.text = timeout_msg /\ Finished(t) /\ state # <<>>)
             => MarksAndRetains(timeout_msg)
        /\ (state # <<>> /\ Last(state).error /\ ~Last(state).loading)
             => (state' # <<>> /\ Last(state').error /\ ~Last(state').loading) ]_vars

C16_Witness ==
    /\ state # <<>> /\ tasks = {}
    /\ Last(state).error /\ ~Last(state).loading
    /\ Last(state).error_message = Some(timeout_msg)
    /\ Last(state).response = "a"
    /\ Last(messages) = Message("Assistant", "a")
    /\ IsTimeout(Last(streams["c1"].items))

\* C17: an error item is the last item of the stream: no item is yielded
\* after an Err. Stated here for the errors other than the timeout
\* (upstream-reported error payload, transport event error).
\* (SpecStream; fails: the mapped stream goes on with whatever the transport
\* delivers next, and spawns its updates.)
C17_ErrorIsLastItem ==
    \A c \in Callers :
        \A i \in DOMAIN streams[c].items :
            (streams[c].items[i].type = "Err" /\ ~IsTimeout(streams[c].items[i]))
            => i = Len(streams[c].items)

\* C18: after Done has been yielded for [DONE] the stream yields nothing
\* more and spawns no further update.
\* (SpecStream; fails: [DONE] does not end the mapped stream; an event
\* delivered after it is decoded and applied like any other.)
C18_DoneIsLastItem ==
    \A c \in Callers :
        \A i \in DOMAIN streams[c].items :
            streams[c].items[i].type = "Done" => i = Len(streams[c].items)

\* C19: when the holder drops the stream before it is exhausted, the turn's
\* Interaction eventually has aborted = true and loading = false.
\* (SpecStreamFair; fails: dropping the stream runs no code of the session,
\* and nothing ever sets aborted.)
C19_DroppedStreamAborts ==
    \A c \in Callers :
        [](streams[c].status = "dropped"
           => <>(state # <<>> /\ Last(state).aborted /\ ~Last(state).loading))

UpstreamError == MessageEvent("{\"error\":\"boom\"}")

\* C20: an event whose payload carries only an error key is yielded to the
\* caller as Err with the reported message and spawns the error update; that
\* update sets error = true, error_message = the reported message and
\* loading = false on the current Interaction and leaves its response and
\* current_step and the Assistant message content as they were. (SpecStream)
C20_UpstreamErrorMarksAndRetains ==
    [][ /\ \A c \in Callers :
             (/\ Len(streams'[c].events) = Len(streams[c].events) + 1
              /\ Last(streams'[c].events) = UpstreamError
              /\ clock - streams[c].start_time < stream_timeout)
             => /\ Last(streams'[c].items) = Chunk("Err", "boom")
                /\ \E t \in tasks' \ tasks : t.kind = "error" /\ t.text = "boom"
                /\ UNCHANGED << messages, state >>
        /\ \A t \in tasks :
             (t.kind = "error" /\ t.text = "boom" /\ Finished(t) /\ state # <<>>)
             => MarksAndRetains("boom") ]_vars

C20_Witness ==
    /\ state # <<>> /\ tasks = {}
    /\ Last(state).error /\ ~Last(state).loading
    /\ Last(state).error_message = Some("boom")
    /\ Last(state).response = "b"
    /\ Last(state).current_step = Some("writing")
    /\ Last(messages) = Message("Assistant", "b")
    /\ Last(streams["c1"].items) = Chunk("Err", "boom")

\* Field f of the enriched request e: the caller's value if the original
\* request d supplied one, else the default dflt.
FilledOrKept(d, e, f, dflt) == e[f] = IF d[f] = None THEN dflt ELSE d[f]

\* C21: the enrichment answer / answer_stream apply to a request fills the
\* omitted fields and nothing else: visitor id from the default constant,
\* interaction id from a freshly generated identifier (one that names no
\* Interaction of the session), session id from the session's identifier,
\* AI configuration from the session default; supplied fields, the query and
\* the other fields are as the caller gave them. (SpecEnrich)
C21_EnrichFillsOmittedOnly ==
    [][ \A c \in Callers :
          (/\ call[c].pc = "store_params" /\ call'[c].pc = "push_messages"
           /\ call[c].op \in {"answer", "answer_stream"})
          => LET d == call[c].data
                 e == call'[c].data
             IN  /\ DOMAIN e = DOMAIN d
                 /\ e.query = d.query
                 /\ e.max_documents = d.max_documents
                 /\ FilledOrKept(d, e, "visitor_id", Some(DEFAULT_SERVER_USER_ID))
                 /\ FilledOrKept(d, e, "session_id", Some(session_id))
                 /\ FilledOrKept(d, e, "llm_config", llm_config)
                 /\ FilledOrKept(d, e, "interaction_id", Some(generate_uuid(uuids')))
                 /\ d.interaction_id = None
                    => /\ uuids' = uuids + 1
                       /\ e.interaction_id # Some(session_id)
                       /\ \A k \in DOMAIN state : state[k].id # e.interaction_id[1] ]_vars

C21_Witness ==
    \E c \in Callers :
        /\ call[c].op = "answer_stream" /\ call[c].pc = "push_messages"
        /\ call[c].data.visitor_id = Some("v-given")
        /\ call[c].data.session_id = Some(session_id)
        /\ call[c].data.interaction_id = Some(generate_uuid(2))
        /\ call[c].data.llm_config = Some("llm-default")
        /\ call[c].data.max_documents = Some(5)

\* C22: what answer / answer_stream store as last parameters is the enriched
\* request; regenerate_last re-issues exactly the stored parameters, their
\* enrichment changes nothing and leaves the stored parameters as they are,
\* and the Interaction it pops has the id the re-added one gets. (SpecEnrich)
C22_RegenerateReissuesStored ==
    [][ \A c \in Callers :
          /\ (call[c].pc = "store_params" /\ call'[c].pc = "push_messages")
             => /\ last_interaction_params' = Some(call'[c].data)
                /\ call[c].op = "regenerate_last"
                   => /\ call'[c].data = call[c].data
                      /\ last_interaction_params' = last_interaction_params
          /\ (call[c].pc = "pop_state" /\ call'[c].pc = "store_params")
             => /\ call'[c].data = last_interaction_params[1]
                /\ state # <<>>
                /\ Last(state).id = call'[c].data.interaction_id[1]
                /\ Last(state).query = call'[c].data.query
          /\ (call[c].pc = "push_state" /\ call'[c].pc # "push_state"
              /\ call[c].op = "regenerate_last")
             => /\ Last(state').id = call[c].data.interaction_id[1]
                /\ call[c].data = last_interaction_params[1] ]_vars

C22_Witness ==
    \E c \in Callers :
        /\ call[c].op = "regenerate_last" /\ call[c].pc = "done" /\ call[c].result.ok
        /\ last_interaction_params # None
        /\ call[c].data = last_interaction_params[1]
        /\ call[c].data.interaction_id = Some(generate_uuid(1))
        /\ Len(state) = 1 /\ Last(state).id = generate_uuid(1)
        /\ uuids = 1

\* C23: when answer returns Ok(text), the last Interaction (the one the call
\* appended) has response = text, loading = false and current_step =
\* "completed", and the last message (the Assistant message the call
\* appended) has content = text. (SpecEnrich)
C23_AnswerWritesBoth ==
    \A c \in Callers :
        (/\ call[c].pc = "done" /\ call[c].result.ok
         /\ (call[c].op = "answer" \/ (call[c].op = "regenerate_last" /\ ~call[c].stream)))
        => /\ state # <<>> /\ messages # <<>>
           /\ Last(state).id = call[c].data.interaction_id[1]
           /\ Last(state).response = call[c].result.val
           /\ ~Last(state).loading
           /\ Last(state).current_step = Some("completed")
           /\ Last(messages) = Message("Assistant", call[c].result.val)

C23_Witness ==
    \E c \in Callers :
        /\ call[c].op = "answer" /\ call[c].pc = "done"
        /\ call[c].result = Ok("ok")
        /\ Last(state).response = "ok"
        /\ Last(messages) = Message("Assistant", "ok")

\* C24: the Interaction answer / answer_stream append is, when appended,
\* loading, not errored, not aborted, with an empty response, no
\* error_message and current_step = "starting"; its id is the enriched
\* request's interaction id and its query the request's query. (SpecEnrich)
C24_InteractionAsCreated ==
    [][ \A c \in Callers :
          (call[c].pc = "push_state" /\ call'[c].pc # "push_state")
          => /\ Len(state') = Len(state) + 1
             /\ Front(state') = state
             /\ LET i == Last(state')
                IN  /\ i.loading /\ ~i.error /\ ~i.aborted
                    /\ i.response = ""
                    /\ i.error_message = None
                    /\ i.current_step = Some("starting")
                    /\ i.id = call[c].data.interaction_id[1]
                    /\ i.query = call[c].data.query ]_vars

C24_Witness ==
    \E c \in Callers :
        /\ call[c].op = "answer_stream" /\ call[c].pc = "open_stream"
        /\ Len(state) = 2
        /\ Last(state).loading /\ Last(state).current_step = Some("starting")
        /\ Last(state).id = "i-given" /\ Last(state).query = "q1"

\* C25: what get_messages() / get_state() returned to the caller reads the
\* same after every later step of the session (content append, step update,
\* regenerate_last, clear_session) as when it was returned. (SpecSnapshot)
C25_SnapshotsAreCopies ==
    [][ (snapshot # NoSnapshot /\ snapshot' = snapshot)
        => Seen(snapshot', messages', state') = Seen(snapshot, messages, state) ]_vars

C25_Witness ==
    /\ snapshot.of = "messages"
    /\ Seen(snapshot, messages, state) = << Message("User", "q1"), Message("Assistant", "a") >>
    /\ messages = <<>>

\* C26: Throttle::execute runs f and returns Some(result) on the first call
\* and on a call made at least limit after the last executed call; a call made
\* less than limit after the last executed call returns None, does not run f
\* and leaves the reference time where it was; so any two executed calls are
\* at least limit apart. (SpecThrottle)
ExecutedBefore(i) == { j \in 1..(i - 1) : executions[j].ran }

LastExecutedAt(i) ==
    LET js == ExecutedBefore(i)
        j == CHOOSE k \in js : \A l \in js : l <= k
    IN executions[j].at

C26_ThrottleRunsOrSkips ==
    /\ \A i \in 1..Len(executions) :
          LET x == executions[i]
              due == ExecutedBefore(i) = {} \/ x.at - LastExecutedAt(i) >= limit
          IN /\ x.ran = due
             /\ x.result # None <=> due
    /\ last_called = IF ExecutedBefore(Len(executions) + 1) = {} THEN None
                     ELSE Some(LastExecutedAt(Len(executions) + 1))
    /\ \A i, j \in 1..Len(executions) :
          (i < j /\ executions[i].ran /\ executions[j].ran)
              => executions[j].at - executions[i].at >= limit

C26_Witness ==
    /\ Len(executions) = 4
    /\ executions[1].ran /\ executions[1].result = Some("r1")
    /\ ~executions[2].ran /\ executions[2].at > executions[1].at
    /\ ~executions[3].ran /\ executions[3].result = None
    /\ executions[4].ran /\ executions[4].at = executions[1].at + limit
    /\ last_called = Some(executions[4].at)

\* C27: safe_json_parse returns one of three things for every text: the
\* direct parse when the text parses as it is; otherwise the parse of the
\* repaired text when the repair succeeds and its text parses (a trailing
\* comma is repaired); otherwise an error value carrying a message.
\* (SpecParse)
C27_ThreeOutcomes ==
    \A i \in 1..Len(parsed) :
        LET x == parsed[i]
            direct == serde_json_from_str(x.data)
            fixed_json == repair_json(x.data)
        IN /\ direct.ok => (x.result.ok /\ x.result.val = direct.val)
           /\ (~direct.ok /\ fixed_json.ok /\ serde_json_from_str(fixed_json.val).ok)
                 => (x.result.ok /\ x.result.val = serde_json_from_str(fixed_json.val).val)
           /\ (~direct.ok /\ ~(fixed_json.ok /\ serde_json_from_str(fixed_json.val).ok))
                 => (~x.result.ok /\ Len(x.result.err) > 0)
           /\ x.data = "{\"content\":\"a\",}"
                 => (x.result.ok /\ x.result.val = Json(Some(Str("a")), None, None, None))

C27_Witness ==
    /\ Len(parsed) = 3
    /\ parsed[1].data = "{\"hits\":3}" /\ parsed[1].result.ok
    /\ parsed[2].data = "{\"content\":\"a\",}" /\ parsed[2].result.ok
    /\ parsed[3].data = "not json" /\ ~parsed[3].result.ok

\* The transport hands the closure of stream c a message event with payload
\* data before the stream's timeout has elapsed: the payload is decoded.
Decodes(c, data) ==
    /\ Len(streams'[c].events) = Len(streams[c].events) + 1
    /\ Last(streams'[c].events) = MessageEvent(data)
    /\ clock - streams[c].start_time < stream_timeout

IsString(field) == field # None /\ field[1].type = "String"

\* Only the last Interaction changes, and becomes x.
OnlyLastInteractionBecomes(x) ==
    /\ Len(state') = Len(state)
    /\ Front(state') = Front(state)
    /\ Last(state') = x
    /\ messages' = messages

\* C28: a decoded payload that parses is classified by key priority
\* content > step > error > other. A string content yields Content, whatever
\* other keys there are, and its update appends the text to the Assistant
\* message and to the Interaction's response and sets current_step /
\* current_step_verbose when the payload has them; otherwise a string step
\* yields StatusUpdate and its update changes current_step only; otherwise a
\* string error yields an Err item; otherwise RawData with the raw payload and
\* no update. (SpecDecode)
C28_KeyPriority ==
    [][ /\ \A c \in Callers : \A data \in DecodePayloads :
             (Decodes(c, data) /\ serde_json_from_str(data).ok)
             => LET j == serde_json_from_str(data).val
                    item == Last(streams'[c].items)
                    new == tasks' \ tasks
                IN /\ UNCHANGED << messages, state >>
                   /\ IF IsString(j.content)
                      THEN /\ item = Chunk("Content", j.content[1].v)
                           /\ \E t \in new :
                                 /\ new = {t}
                                 /\ t.kind = "content" /\ t.text = j.content[1].v
                                 /\ t.step = (IF IsString(j.step)
                                              THEN Some(j.step[1].v) ELSE None)
                                 /\ t.verbose = (IF IsString(j.verbose_step)
                                                 THEN Some(j.verbose_step[1].v) ELSE None)
                      ELSE IF IsString(j.step)
                      THEN /\ item = Chunk("StatusUpdate", j.step[1].v)
                           /\ \E t \in new :
                                 new = {t} /\ t.kind = "step" /\ t.step = Some(j.step[1].v)
                      ELSE IF IsString(j.error)
                      THEN /\ item = Chunk("Err", j.error[1].v)
                           /\ \E t \in new :
                                 new = {t} /\ t.kind = "error" /\ t.text = j.error[1].v
                      ELSE item = Chunk("RawData", data) /\ new = {}
        /\ \A t \in tasks :
             /\ (t.kind = "content" /\ t.phase = "messages"
                    /\ tasks' = (tasks \ {t}) \cup {[t EXCEPT !.phase = "state"]}
                    /\ messages # <<>>)
                => /\ state' = state
                   /\ Len(messages') = Len(messages)
                   /\ Front(messages') = Front(messages)
                   /\ Last(messages') =
                         IF Last(messages).role = "Assistant"
                         THEN [Last(messages) EXCEPT !.content = @ \o t.text]
                         ELSE Last(messages)
             /\ (t.kind = "content" /\ t.phase = "state" /\ Finished(t) /\ state # <<>>)
                => OnlyLastInteractionBecomes(
                      [Last(state) EXCEPT
                          !.response = @ \o t.text,
                          !.current_step = IF t.step # None THEN t.step ELSE @,
                          !.current_step_verbose = IF t.verbose # None THEN t.verbose ELSE @])
             /\ (t.kind = "step" /\ Finished(t) /\ state # <<>>)
                => OnlyLastInteractionBecomes([Last(state) EXCEPT !.current_step = t.step])
      ]_vars

C28_Witness ==
    /\ streams["c1"].events =
          << MessageEvent("{\"content\":\"c\",\"error\":\"boom\"}"),
             MessageEvent("{\"content\":1,\"step\":\"searching\"}") >>
    /\ streams["c1"].items = << Chunk("Content", "c"), Chunk("StatusUpdate", "searching") >>
    /\ tasks = {}
    /\ Last(messages) = Message("Assistant", "c")
    /\ Last(state).response = "c"
    /\ Last(state).current_step = Some("searching")
    /\ ~Last(state).error

\* C29: a decoded message event that is not "[DONE]" and whose payload does
\* not parse even after repair yields RawData carrying the payload as it
\* came; the empty payload yields RawData(""); no update is spawned and
\* messages and state stay as they are. (SpecDecode)
C29_UnparsedIsRawData ==
    [][ \A c \in Callers : \A data \in DecodePayloads :
           (Decodes(c, data) /\ data # "[DONE]" /\ ~safe_json_parse(data).ok)
           => /\ Last(streams'[c].items) = Chunk("RawData", data)
              /\ Len(streams'[c].items) = Len(streams[c].items) + 1
              /\ tasks' = tasks
              /\ UNCHANGED << messages, state >> ]_vars

C29_Witness ==
    /\ streams["c1"].events = << MessageEvent(""), MessageEvent("not json") >>
    /\ streams["c1"].items = << Chunk("RawData", ""), Chunk("RawData", "not json") >>
    /\ tasks = {}
    /\ messages = << Message("User", "q1"), Message("Assistant", "") >>
    /\ Len(state) = 1 /\ Last(state).response = "" /\ ~Last(state).error
    /\ Last(state).loading

\* C30: the items a stream has yielded are, one for one and in the same
\* order, the items of the events the transport has delivered: the i-th item
\* is what the closure makes of the i-th event (ConnectionOpened for Open, the
\* chunk or error of a message, the error of a transport error, or the
\* timeout error), so nothing is reordered, duplicated, merged or left out.
\* (SpecStream)
C30_ItemsFollowEvents ==
    \A c \in Callers :
        /\ Len(streams[c].items) = Len(streams[c].events)
        /\ Len(streams[c].items) = streams[c].polled
        /\ \A i \in 1..Len(streams[c].items) :
              LET ev == streams[c].events[i]
                  item == streams[c].items[i]
              IN /\ \/ IsTimeout(item)
                    \/ item = map_event(ev, c, i).item
                 /\ item.type = "ConnectionOpened" => ev.kind = "Open"
                 /\ item.type \in {"Content", "StatusUpdate", "RawData", "Done"}
                       => ev.kind = "Message"

C30_Witness ==
    /\ streams["c1"].events = << OpenEvent, MessageEvent("{\"content\":\"a\"}") >>
    /\ streams["c1"].items = << Chunk("ConnectionOpened", ""), Chunk("Content", "a") >>

\* C31: an operation that changes both sequences is never observable
\* half-done. Stated here for the appends of concurrent answer /
\* answer_stream calls on a session that starts empty: a reader that takes
\* both locks at any moment finds one User+Assistant pair per Interaction.
\* (SpecConc; fails: the pair and the Interaction are pushed in two separate
\* lock sections, and a reader may come in between.)
C31_AppendsAreAtomic == Len(messages) = 2 * Len(state)

\* C32: the operations of one session never deadlock on its locks: no
\* operation ever holds two guards at once, and under every interleaving each
\* operation is granted every lock it asks for and runs to its end.
\* (SpecLocksFair)
C32_NoLockDeadlock ==
    /\ [](\A p \in LockOps : Cardinality(Held(p)) <= 1)
    /\ <>(\A p \in LockOps : LockDone(p))

C32_Witness ==
    /\ Held("answer") = { Acq("messages", "write") }
    /\ Waiting("clear_session")
    /\ Waiting("get_messages")
    /\ Waiting("content_task")
    /\ Held("get_state") = { Acq("state", "read") }
    /\ Waiting("state_task")

\* A block of the content update t runs.
ContentBlockRuns(t) ==
    /\ t \in tasks /\ t.kind = "content"
    /\ \/ t.phase = "messages" /\ tasks' = (tasks \ {t}) \cup {[t EXCEPT !.phase = "state"]}
       \/ t.phase = "state" /\ tasks' = tasks \ {t}

\* C33 as claimed: a content chunk of the old stream that is processed on the
\* cleared session re-creates entries: the block of the content update that
\* finds its sequence empty leaves it non-empty.
\* (SpecClear; fails: on an empty sequence last_mut() is None and the block
\* does nothing.)
C33_ChunkRecreatesEntries ==
    [][ \A t \in tasks :
          /\ (ContentBlockRuns(t) /\ t.phase = "messages" /\ messages = <<>>)
                => messages' # <<>>
          /\ (ContentBlockRuns(t) /\ t.phase = "state" /\ state = <<>>)
                => state' # <<>> ]_vars

\* C33 as amended: clear_session leaves the stream and the pending updates
\* as they are, and no update of the stream ever adds an entry: an update that
\* runs on the cleared session leaves both sequences empty. (SpecClear)
C33_ChunkAfterClearIsDropped ==
    [][ /\ \A c \in Callers :
             (call[c].op = "clear_session" /\ call'[c] # call[c])
             => (streams' = streams /\ tasks' = tasks)
        /\ (\E t \in tasks : t \notin tasks')
             => /\ Len(messages') = Len(messages)
                /\ Len(state') = Len(state)
                /\ messages = <<>> => messages' = <<>>
                /\ state = <<>> => state' = <<>> ]_vars

C33_Witness ==
    /\ call["c1"].op = "clear_session" /\ call["c1"].pc = "done"
    /\ messages = <<>> /\ state = <<>>
    /\ streams["c1"].status = "open"
    /\ streams["c1"].items = << Chunk("Content", "a") >>
    /\ \E t \in tasks : t.kind = "content" /\ t.phase = "messages" /\ t.text = "a"

\* C34: a call of answer / answer_stream appends its User message (content =
\* the query) and the empty Assistant placeholder in one step, so under every
\* interleaving of concurrent calls each User message is directly followed
\* by the Assistant message of the same call. (SpecConc)
C34_PairIsAdjacent ==
    /\ [](\A k \in 1..Len(messages) :
             IF k % 2 = 1
             THEN /\ messages[k].role = "User"
                  /\ k + 1 <= Len(messages)
             ELSE messages[k].role = "Assistant")
    /\ [][ \A c \in Callers :
             (call[c].pc = "push_messages" /\ call'[c].pc # "push_messages")
             => messages' = messages \o << Message("User", call[c].data.query),
                                           Message("Assistant", "") >> ]_vars

C34_Witness ==
    /\ Len(messages) = 4
    /\ messages[1] = Message("User", "q2") /\ messages[3] = Message("User", "q1")
    /\ Len(state) = 2
    /\ state[1].query = "q1" /\ state[2].query = "q2"

\* C35: the updates of a stream's events go to the turn of the answer_stream
\* call that opened the stream. Stated here for a turn appended by answer()
\* while an earlier stream is still being consumed: the Interaction of the
\* answer() call holds nothing but what that call wrote (nothing, or the
\* answer text).
\* (SpecOverlap; fails: the updates go to whatever Interaction and message
\* are last when they run.)
C35_UpdatesStayInTheirTurn ==
    \A c \in Callers :
        (call[c].op = "answer" /\ call[c].pc \notin {"store_params", "push_messages"})
        => \A k \in 1..Len(state) :
              state[k].id = call[c].data.interaction_id[1]
              => state[k].response \in {"", "ok"}

\* C36: two concurrent regenerate_last calls on a session holding one
\* completed turn each pop only the turn they validated: once both have
\* returned Ok the session holds one Interaction again, and the User message
\* of the first turn is still the first message.
\* (SpecRegen; fails: the checks and the pops are separate lock sections, so
\* both calls pass the checks on the same turn and both pop.)
C36_ConcurrentRegenerateKeepsCount ==
    (\A c \in Callers :
        call[c].op = "regenerate_last" /\ call[c].pc = "done" /\ call[c].result.ok)
    => /\ Len(state) = 1
       /\ messages # <<>>
       /\ messages[1] = Message("User", "q1")

\* C37: on an Interaction that stays in the sequence, loading never goes back
\* from false to true and error never goes back from true to false, whichever
\* update runs (content, step, "[DONE]", timeout or error marking, the
\* completion of answer). (SpecLifetime)
C37_LoadingAndErrorMonotonic ==
    [][ \A k \in 1..Len(state) :
          k <= Len(state')
          => /\ ~state[k].loading => ~state'[k].loading
             /\ state[k].error => state'[k].error ]_vars

C37_Witness ==
    /\ Len(state) = 1 /\ tasks = {}
    /\ streams["c1"].items = << Chunk("Err", "boom"), Chunk("Done", "") >>
    /\ state[1].error /\ ~state[1].loading
    /\ state[1].current_step = Some("completed")

\* C38: when the request regenerate_last re-issues fails, the call returns
\* the error and nothing is restored: the Assistant message and the
\* Interaction it popped are gone (the User message of the replay stands
\* where the Assistant message stood), and the session ends with the turn the
\* replay appended, whose Interaction carries the query and the id of the
\* stored request. After a failed API call that Interaction is loading with
\* an empty response and no error mark; after a failed stream it holds the
\* content applied so far. (SpecRegenFail)
C38_FailedRegenerateRestoresNothing ==
    \A c \in Callers :
        (/\ call[c].op = "regenerate_last" /\ call[c].pc = "done"
         /\ ~call[c].result.ok /\ call[c].last_params # None)
        => LET replayed == call[c].last_params[1] IN
           /\ Len(state) = call[c].state_len
           /\ Last(state).query = replayed.query
           /\ Last(state).id = replayed.interaction_id[1]
           /\ Last(state).response \in {"", "a", "aa"}
           /\ Len(messages) = call[c].messages_len + 1
           /\ messages[call[c].messages_len] = Message("User", replayed.query)
           /\ Last(messages).role = "Assistant"
           /\ Last(messages).content \in {"", "a", "aa"}
           /\ ~call[c].stream
                 => /\ call[c].result = Err("auth: Unauthorized")
                    /\ Last(state).loading /\ ~Last(state).error
                    /\ Last(state).response = "" /\ Last(messages).content = ""

C38_Witness ==
    /\ call["c1"].op = "regenerate_last" /\ call["c1"].pc = "done"
    /\ ~call["c1"].stream
    /\ call["c1"].result = Err("auth: Unauthorized")
    /\ Len(state) = 1 /\ state[1].loading /\ state[1].response = ""
    /\ messages = << Message("User", "q1"), Message("User", "q1"), Message("Assistant", "") >>

\* C39: when answer_stream returns an error because the auth reference or
\* the EventSource could not be obtained, the session has been changed all
\* the same: the stored parameters are the enriched request of the call, the
\* User message and the Assistant placeholder and the Interaction are there,
\* and the Interaction is loading, with no error mark and no error message.
\* (SpecStream)
C39_FailedOpenLeavesTurn ==
    \A c \in Callers :
        (call[c].op = "answer_stream" /\ call[c].pc = "done" /\ ~call[c].result.ok)
        => /\ call[c].result \in { Err("auth: no reference"),
                                   Err("EventSource creation failed") }
           /\ streams[c].status = "none"
           /\ last_interaction_params = Some(call[c].data)
           /\ call[c].data.visitor_id # None /\ call[c].data.interaction_id # None
           /\ Len(messages) >= 2
           /\ messages[Len(messages) - 1] = Message("User", call[c].data.query)
           /\ Last(messages) = Message("Assistant", "")
           /\ Len(state) = 1
           /\ state[1] = NewInteraction(call[c].data.interaction_id[1], call[c].data.query)
           /\ state[1].loading /\ ~state[1].error /\ state[1].error_message = None

C39_Witness ==
    /\ call["c1"].op = "answer_stream" /\ call["c1"].pc = "done"
    /\ call["c1"].result = Err("EventSource creation failed")
    /\ Len(state) = 1 /\ state[1].loading
    /\ last_interaction_params # None

\* C40: the elapsed time is checked before the event is decoded.  An event
\* polled when clock - start_time >= stream_timeout yields the timeout
\* error whatever it carries: the only task started is the one that marks
\* the Interaction as errored with the timeout message, no content is
\* appended and no step is updated for it, and an Open event or a [DONE]
\* sentinel gives the timeout error, not ConnectionOpened or Done.  Before
\* the limit the same two events give ConnectionOpened and Done.
\* (SpecStream)
C40_TimeoutPrecedesDecoding ==
    [][ \A c \in Callers :
          Len(streams'[c].events) = Len(streams[c].events) + 1
          => LET ev   == Last(streams'[c].events)
                 item == Last(streams'[c].items)
                 new  == tasks' \ tasks
                 late == clock - streams[c].start_time >= stream_timeout
             IN  /\ late =>
                      /\ item = Chunk("Err", timeout_msg)
                      /\ new = { Task("error", c, streams'[c].polled, timeout_msg,
                                      None, None) }
                      /\ \A t \in new : t.kind \notin {"content", "step", "done"}
                      /\ UNCHANGED << messages, state >>
                 /\ (~late /\ ev = OpenEvent)
                      => (item = Chunk("ConnectionOpened", "") /\ new = {})
                 /\ (~late /\ ev = MessageEvent("[DONE]"))
                      => (item = Chunk("Done", "")
                          /\ \A t \in new : t.kind = "done") ]_vars

C40_Witness ==
    /\ streams["c1"].events = << OpenEvent, MessageEvent("[DONE]") >>
    /\ streams["c1"].items = << Chunk("Err", timeout_msg), Chunk("Err", timeout_msg) >>
    /\ \A t \in tasks : t.kind = "error" /\ t.text = timeout_msg
    /\ clock - streams["c1"].start_time >= stream_timeout

====
